---------------------------- MODULE Spec2Model ----------------------------
(* A model of the asset matching service: the LRU response cache           *)
(* (src/ai/io.py), the field validators, the product-line matcher, the     *)
(* explanation generator and the orchestrator process_asset_data           *)
(* (src/ai/mockservice.py), and the mock enrichment source                 *)
(* (src/salesforce/salesforce.py).                                         *)
(*                                                                         *)
(* Text is modelled as a sequence of one-character strings, so that        *)
(* strip(), lower(), upper(), slicing, `in` and f-string interpolation are *)
(* computed on characters as Python computes them.                         *)
EXTENDS Integers, Sequences, FiniteSets, TLC

VARIABLES
    cache,      \* LRUCache.cache: OrderedDict as a sequence of [key, value], oldest first
    capacity,   \* LRUCache.capacity
    heap,       \* the live AssetProcessingResult objects: object id -> ai_state
    ret,        \* the object the last process_asset_data call returned (0: none yet)
    last,       \* history: what the last call on the service did
    snap,       \* history: cache key -> the ai_state its object had when it was cached
    nmut,       \* number of mutations the caller has made to returned objects
    ops,        \* history: the calls made on a bare LRUCache, each with the cache before it
    keyIn,      \* the two asset_data inputs of the cache key comparison
    keyOut,     \* the keys _create_cache_key returned for keyIn (<<>>: not yet computed)
    requests,   \* the /match requests the server has accepted, each with its task's position
    running     \* the request whose task the event loop is executing (0: the loop is idle)

vars == <<cache, capacity, heap, ret, last, snap, nmut, ops, keyIn, keyOut, requests, running>>

-----------------------------------------------------------------------------
(* Bounds of the model *)

\* Largest capacity an LRUCache is constructed with.
MaxCapacity == 2

\* Largest number of /match requests the server accepts in one run.
MaxRequests == 2

\* Largest number of times the caller mutates a returned object.
MaxMutations == 1

-----------------------------------------------------------------------------
(* Text *)

UpperLetters ==
    <<"A","B","C","D","E","F","G","H","I","J","K","L","M",
      "N","O","P","Q","R","S","T","U","V","W","X","Y","Z">>

LowerLetters ==
    <<"a","b","c","d","e","f","g","h","i","j","k","l","m",
      "n","o","p","q","r","s","t","u","v","w","x","y","z">>

\* The characters str.strip() removes, among those the inputs use.
Whitespace == {" ", "\t", "\n"}

IndexIn(letters, c) == CHOOSE i \in 1..Len(letters) : letters[i] = c

IsUpper(c) == \E i \in 1..Len(UpperLetters) : UpperLetters[i] = c

IsLower(c) == \E i \in 1..Len(LowerLetters) : LowerLetters[i] = c

\* str.isalpha() on one character
isalpha(c) == IsUpper(c) \/ IsLower(c)

\* str.lower()
lower(s) ==
    [i \in 1..Len(s) |->
        IF IsUpper(s[i]) THEN LowerLetters[IndexIn(UpperLetters, s[i])] ELSE s[i]]

\* str.upper()
upper(s) ==
    [i \in 1..Len(s) |->
        IF IsLower(s[i]) THEN UpperLetters[IndexIn(LowerLetters, s[i])] ELSE s[i]]

\* str.strip(): drop leading and trailing whitespace
strip(s) ==
    LET keep == {i \in 1..Len(s) : s[i] \notin Whitespace}
        lo == CHOOSE i \in keep : \A j \in keep : i <= j
        hi == CHOOSE i \in keep : \A j \in keep : i >= j
    IN  IF keep = {} THEN <<>> ELSE SubSeq(s, lo, hi)

\* Python's `sub in s` on text
contains(sub, s) ==
    \E i \in 0..(Len(s) - Len(sub)) : SubSeq(s, i + 1, i + Len(sub)) = sub

\* s[:n]
prefix(s, n) == SubSeq(s, 1, IF Len(s) < n THEN Len(s) ELSE n)

\* sep.join(parts)
RECURSIVE join(_, _)
join(sep, parts) ==
    IF Len(parts) = 0 THEN <<>>
    ELSE IF Len(parts) = 1 THEN parts[1]
    ELSE parts[1] \o sep \o join(sep, Tail(parts))

-----------------------------------------------------------------------------
(* Text constants of the source *)

\* The reasons the field validators record
ValidatorReason ==
    [ManufacturerMissing |->
        <<"M","a","n","u","f","a","c","t","u","r","e","r"," ","i","s"," ","e","m","p","t","y",
          " ","o","r"," ","m","i","s","s","i","n","g">>,
     ManufacturerGeneric |->
        <<"M","a","n","u","f","a","c","t","u","r","e","r"," ","i","s"," ","g","e","n","e","r",
          "i","c"," ","p","l","a","c","e","h","o","l","d","e","r">>,
     ManufacturerOk |->
        <<"V","a","l","i","d"," ","m","a","n","u","f","a","c","t","u","r","e","r"," ","p","r",
          "o","v","i","d","e","d">>,
     ClassificationMissing |->
        <<"A","s","s","e","t"," ","c","l","a","s","s","i","f","i","c","a","t","i","o","n"," ",
          "i","s"," ","e","m","p","t","y"," ","o","r"," ","m","i","s","s","i","n","g">>,
     ClassificationShort |->
        <<"A","s","s","e","t"," ","c","l","a","s","s","i","f","i","c","a","t","i","o","n"," ",
          "t","o","o"," ","s","h","o","r","t"," ","(","m","i","n","i","m","u","m"," ","3"," ",
          "c","h","a","r","a","c","t","e","r","s",")">>,
     ClassificationOk |->
        <<"V","a","l","i","d"," ","a","s","s","e","t"," ","c","l","a","s","s","i","f","i","c",
          "a","t","i","o","n"," ","p","r","o","v","i","d","e","d">>,
     ModelMissing |->
        <<"M","o","d","e","l"," ","n","u","m","b","e","r"," ","i","s"," ","e","m","p","t","y",
          " ","o","r"," ","m","i","s","s","i","n","g">>,
     ModelShort |->
        <<"M","o","d","e","l"," ","n","u","m","b","e","r"," ","t","o","o"," ","s","h","o","r",
          "t"," ","(","m","i","n","i","m","u","m"," ","3"," ","c","h","a","r","a","c","t","e",
          "r","s",")">>,
     ModelGenericPre |->
        <<"M","o","d","e","l"," ","n","u","m","b","e","r"," ","'">>,
     ModelGenericPost |->
        <<"'"," ","i","s"," ","t","o","o"," ","g","e","n","e","r","i","c">>,
     ModelOk |->
        <<"V","a","l","i","d"," ","m","o","d","e","l"," ","n","u","m","b","e","r"," ","p","r",
          "o","v","i","d","e","d">>]

\* The reasons the product-line matcher records, cut at the interpolated values
MatcherReason ==
    [FoundPre |->
        <<"F","o","u","n","d"," ","p","r","o","d","u","c","t"," ","l","i","n","e"," ","'">>,
     FoundMid |->
        <<"'"," ","f","r","o","m"," ","p","a","t","t","e","r","n"," ","'">>,
     FoundPost |->
        <<"'">>,
     ExtractedPre |->
        <<"E","x","t","r","a","c","t","e","d"," ","p","o","t","e","n","t","i","a","l"," ","p",
          "r","o","d","u","c","t"," ","l","i","n","e"," ","'">>,
     ExtractedPost |->
        <<"'"," ","f","r","o","m"," ","m","o","d","e","l"," ","p","r","e","f","i","x">>,
     NotFound |->
        <<"N","o"," ","s","p","e","c","i","f","i","c"," ","p","r","o","d","u","c","t"," ","l",
          "i","n","e"," ","m","a","t","c","h"," ","f","o","u","n","d">>]

\* The reasons generate_explanation and update_with_enriched_data record
RecordReason ==
    [Explanation |->
        <<"E","x","p","l","a","n","a","t","i","o","n"," ","g","e","n","e","r","a","t","e","d",
          " ","b","a","s","e","d"," ","o","n"," ","p","r","o","c","e","s","s","i","n","g"," ",
          "r","e","s","u","l","t","s">>,
     EnrichedPre |->
        <<"E","n","r","i","c","h","e","d"," ","v","i","a"," ","S","a","l","e","s","f","o","r",
          "c","e",":"," ">>]

\* The explanation templates, cut at the interpolated values
Template ==
    [ModelPre |->
        <<"T","h","e"," ","m","o","d","e","l"," ","n","u","m","b","e","r"," ","'">>,
     CumminsA |->
        <<"'"," ","c","o","r","r","e","s","p","o","n","d","s"," ","t","o"," ","t","h","e"," ",
          "'">>,
     CumminsB |->
        <<"'"," ","p","r","o","d","u","c","t"," ","l","i","n","e",","," ","a"," ","d","i","e",
          "s","e","l"," ","g","e","n","e","r","a","t","o","r"," ","s","e","t"," ","m","a","n",
          "u","f","a","c","t","u","r","e","d"," ","b","y"," ","C","u","m","m","i","n","s",".",
          " ","T","h","e"," ","'">>,
     CumminsC |->
        <<"'"," ","m","o","d","e","l"," ","i","s"," ","p","a","r","t"," ","o","f"," ","C","u",
          "m","m","i","n","s","'"," ","6","0","H","z"," ","d","i","e","s","e","l"," ","g","e",
          "n","e","r","a","t","o","r"," ","o","f","f","e","r","i","n","g","s"," ","w","i","t",
          "h"," ","r","o","b","u","s","t"," ","p","e","r","f","o","r","m","a","n","c","e"," ",
          "s","p","e","c","i","f","i","c","a","t","i","o","n","s","."," ","T","h","i","s"," ",
          "i","n","f","o","r","m","a","t","i","o","n"," ","i","s"," ","s","o","u","r","c","e",
          "d"," ","f","r","o","m"," ","C","u","m","m","i","n","s","'"," ","o","f","f","i","c",
          "i","a","l"," ","p","r","o","d","u","c","t"," ","d","o","c","u","m","e","n","t","a",
          "t","i","o","n",".">>,
     CaterpillarA |->
        <<"'"," ","i","d","e","n","t","i","f","i","e","s"," ","a"," ","C","a","t","e","r","p",
          "i","l","l","a","r"," ","'">>,
     CaterpillarB |->
        <<"'"," ","s","e","r","i","e","s"," ","g","e","n","e","r","a","t","o","r","."," ","T",
          "h","i","s"," ","m","o","d","e","l"," ","i","s"," ","p","a","r","t"," ","o","f"," ",
          "C","a","t","e","r","p","i","l","l","a","r","'","s"," ","i","n","d","u","s","t","r",
          "i","a","l"," ","g","e","n","e","r","a","t","o","r"," ","l","i","n","e","u","p"," ",
          "k","n","o","w","n"," ","f","o","r"," ","r","e","l","i","a","b","i","l","i","t","y",
          " ","a","n","d"," ","p","e","r","f","o","r","m","a","n","c","e"," ","i","n"," ","d",
          "e","m","a","n","d","i","n","g"," ","a","p","p","l","i","c","a","t","i","o","n","s",
          ".">>,
     KohlerA |->
        <<"'"," ","r","e","p","r","e","s","e","n","t","s"," ","a"," ","K","o","h","l","e","r",
          " ","'">>,
     KohlerB |->
        <<"'"," ","s","e","r","i","e","s"," ","g","e","n","e","r","a","t","o","r",","," ","p",
          "a","r","t"," ","o","f"," ","t","h","e","i","r"," ","c","o","m","m","e","r","c","i",
          "a","l"," ","a","n","d"," ","i","n","d","u","s","t","r","i","a","l"," ","p","o","w",
          "e","r"," ","g","e","n","e","r","a","t","i","o","n"," ","p","o","r","t","f","o","l",
          "i","o",".">>,
     GenericA |->
        <<"'"," ","h","a","s"," ","b","e","e","n"," ","m","a","t","c","h","e","d"," ","t","o",
          " ","t","h","e"," ","'">>,
     GenericB |->
        <<"'"," ","p","r","o","d","u","c","t"," ","l","i","n","e"," ","b","a","s","e","d"," ",
          "o","n"," ","m","a","n","u","f","a","c","t","u","r","e","r"," ","s","p","e","c","i",
          "f","i","c","a","t","i","o","n","s"," ","a","n","d"," ","i","n","d","u","s","t","r",
          "y"," ","s","t","a","n","d","a","r","d"," ","n","a","m","i","n","g"," ","c","o","n",
          "v","e","n","t","i","o","n","s",".">>,
     NeedsPre |->
        <<"T","h","e"," ","d","a","t","a"," ","n","e","e","d","s"," ","t","o"," ","b","e"," ",
          "m","o","r","e"," ","s","p","e","c","i","f","i","c"," ","f","o","r"," ","a","c","c",
          "u","r","a","t","e"," ","m","a","t","c","h","i","n","g","."," ","I","s","s","u","e",
          "s"," ","f","o","u","n","d"," ","w","i","t","h",":"," ">>,
     NeedsPost |->
        <<"."," ","P","l","e","a","s","e"," ","p","r","o","v","i","d","e"," ","m","o","r","e",
          " ","d","e","t","a","i","l","e","d"," ","i","n","f","o","r","m","a","t","i","o","n",
          ".">>,
     CommaSpace |->
        <<","," ">>,
     NoMatchPre |->
        <<"V","a","l","i","d"," ","d","a","t","a"," ","p","r","o","v","i","d","e","d"," ","b",
          "u","t"," ","n","o"," ","s","p","e","c","i","f","i","c"," ","p","r","o","d","u","c",
          "t"," ","l","i","n","e"," ","m","a","t","c","h"," ","c","o","u","l","d"," ","b","e",
          " ","d","e","t","e","r","m","i","n","e","d"," ","f","o","r"," ","m","o","d","e","l",
          " ","'">>,
     NoMatchPost |->
        <<"'",".">>]

\* The field names as text, for the join of the failed field names
FieldNameText ==
    [manufacturer |->
        <<"m","a","n","u","f","a","c","t","u","r","e","r">>,
     model_number |->
        <<"m","o","d","e","l","_","n","u","m","b","e","r">>,
     asset_classification |->
        <<"a","s","s","e","t","_","c","l","a","s","s","i","f","i","c","a","t","i","o","n">>,
     product_line |->
        <<"p","r","o","d","u","c","t","_","l","i","n","e">>,
     explanation |->
        <<"e","x","p","l","a","n","a","t","i","o","n">>]

\* The manufacturers that key known_patterns and the explanation templates
Maker ==
    [cummins |->
        <<"c","u","m","m","i","n","s">>,
     caterpillar |->
        <<"c","a","t","e","r","p","i","l","l","a","r">>,
     kohler |->
        <<"k","o","h","l","e","r">>]

\* The generic placeholders of check_manufacturer and check_model_number
Placeholder ==
    [to_be_determined |->
        <<"t","o"," ","b","e"," ","d","e","t","e","r","m","i","n","e","d">>,
     unknown |->
        <<"u","n","k","n","o","w","n">>,
     n450 |->
        <<"4","5","0">>,
     n500 |->
        <<"5","0","0">>,
     n600 |->
        <<"6","0","0">>,
     n1000 |->
        <<"1","0","0","0">>,
     n2000 |->
        <<"2","0","0","0">>,
     generator |->
        <<"g","e","n","e","r","a","t","o","r">>]

\* The values of the mock enrichment tables
Enhanced ==
    [CumminsPower |->
        <<"C","u","m","m","i","n","s"," ","P","o","w","e","r"," ","G","e","n","e","r","a","t",
          "i","o","n">>,
     CaterpillarInc |->
        <<"C","a","t","e","r","p","i","l","l","a","r"," ","I","n","c",".">>,
     KohlerCo |->
        <<"K","o","h","l","e","r"," ","C","o",".">>,
     Generac |->
        <<"G","e","n","e","r","a","c"," ","P","o","w","e","r"," ","S","y","s","t","e","m","s">>,
     Model450 |->
        <<"C","4","5","0","D","6","-","4","5","0","k","W","-","D","i","e","s","e","l","-","G",
          "e","n","e","r","a","t","o","r">>,
     Model500 |->
        <<"Q","S","K","1","9","-","G","4","-","5","0","0","k","W","-","N","a","t","u","r","a",
          "l","-","G","a","s">>,
     Model600 |->
        <<"3","5","1","6","B","-","6","0","0","k","W","-","D","i","e","s","e","l","-","M","a",
          "r","i","n","e">>,
     Model1000 |->
        <<"Q","S","T","3","0","-","G","5","-","1","0","0","0","k","W","-","S","t","a","n","d",
          "b","y">>,
     Model2000 |->
        <<"3","5","2","0","C","-","2","0","0","0","k","W","-","P","r","i","m","e","-","P","o",
          "w","e","r">>,
     ClassGenerator |->
        <<"E","m","e","r","g","e","n","c","y"," ","B","a","c","k","u","p"," ","G","e","n","e",
          "r","a","t","o","r"," ","(","D","i","e","s","e","l",")">>,
     ClassEmissions |->
        <<"T","i","e","r"," ","4"," ","F","i","n","a","l"," ","E","m","i","s","s","i","o","n",
          "s"," ","C","o","n","t","r","o","l"," ","S","y","s","t","e","m">>,
     QSKSeries |->
        <<"Q","S","K"," ","S","e","r","i","e","s">>,
     CSeries |->
        <<"C","-","S","e","r","i","e","s">>,
     DQKABSeries |->
        <<"D","Q","K","A","B"," ","S","e","r","i","e","s">>,
     PowerTech |->
        <<"P","o","w","e","r","T","e","c","h"," ","S","e","r","i","e","s">>]

\* The provenance the mock enrichment lookups name
Source ==
    [Vendor |->
        <<"S","a","l","e","s","f","o","r","c","e"," ","V","e","n","d","o","r"," ","M","a","s",
          "t","e","r">>,
     Hierarchy |->
        <<"S","a","l","e","s","f","o","r","c","e"," ","A","s","s","e","t"," ","H","i","e","r",
          "a","r","c","h","y">>,
     TechSpecs |->
        <<"S","a","l","e","s","f","o","r","c","e"," ","T","e","c","h","n","i","c","a","l"," ",
          "S","p","e","c","i","f","i","c","a","t","i","o","n","s">>,
     Catalog |->
        <<"S","a","l","e","s","f","o","r","c","e"," ","P","r","o","d","u","c","t"," ","C","a",
          "t","a","l","o","g">>,
     Unknown |->
        <<"U","n","k","n","o","w","n">>]

\* The text of a field name
FieldText(f) == FieldNameText[f]

-----------------------------------------------------------------------------
(* AssetProcessingResult: ai_state is a dict, modelled in insertion order as a *)
(* sequence of entries [field, status, reason, value].                        *)

\* ai_state after __post_init__ and after clear_ai_state
EmptyState == <<>>

\* field_name in self.ai_state
HasField(st, f) == \E i \in 1..Len(st) : st[i].field = f

\* self.ai_state.get(f, {}).get("value", dflt)
ValueOf(st, f, dflt) ==
    IF HasField(st, f)
    THEN st[CHOOSE i \in 1..Len(st) : st[i].field = f].value
    ELSE dflt

\* self.ai_state[f]["status"], "absent" when the field is not tracked
StatusOf(st, f) ==
    IF HasField(st, f)
    THEN st[CHOOSE i \in 1..Len(st) : st[i].field = f].status
    ELSE "absent"

\* self.ai_state[f]["reason"]
ReasonOf(st, f) ==
    IF HasField(st, f)
    THEN st[CHOOSE i \in 1..Len(st) : st[i].field = f].reason
    ELSE <<>>

\* A dict assignment keeps the position of a key it already holds and appends a new one.
insert_state(st, f, status, reason, value) ==
    LET e == [field |-> f, status |-> status, reason |-> reason, value |-> value]
    IN  IF HasField(st, f)
        THEN [i \in 1..Len(st) |-> IF st[i].field = f THEN e ELSE st[i]]
        ELSE Append(st, e)

\* A failure test that lets the explanation record's status pass as well
Lenient_NotOk(e) == e.status \notin {"ok", "generated"}

NotOk(e) == e.status # "ok"

\* A get_failed_validations that looks at the three validated input fields only
InputFields_failed(st) ==
    SelectSeq(st, LAMBDA e : e.status # "ok" /\ e.field # "product_line")

get_failed_validations(st) == SelectSeq(st, NotOk)

is_valid(st) == Len(get_failed_validations(st)) = 0

\* list(failed_validations.keys())
FieldNames(entries) == [i \in 1..Len(entries) |-> entries[i].field]

\* The text generate_explanation builds
ExplanationText(st) ==
    LET manufacturer == ValueOf(st, "manufacturer", <<>>)
        model_number == ValueOf(st, "model_number", <<>>)
        product_line == ValueOf(st, "product_line", <<>>)
        manufacturer_lower == lower(manufacturer)
        failed == get_failed_validations(st)
    IN  IF is_valid(st) /\ Len(product_line) > 0
        THEN CASE manufacturer_lower = Maker.cummins ->
                    Template.ModelPre \o model_number \o Template.CumminsA \o product_line
                    \o Template.CumminsB \o product_line \o Template.CumminsC
               [] manufacturer_lower = Maker.caterpillar ->
                    Template.ModelPre \o model_number \o Template.CaterpillarA \o product_line
                    \o Template.CaterpillarB
               [] manufacturer_lower = Maker.kohler ->
                    Template.ModelPre \o model_number \o Template.KohlerA \o product_line
                    \o Template.KohlerB
               [] OTHER ->
                    Template.ModelPre \o model_number \o Template.GenericA \o product_line
                    \o Template.GenericB
        ELSE IF Len(failed) > 0
             THEN Template.NeedsPre
                  \o join(Template.CommaSpace,
                          [i \in 1..Len(failed) |-> FieldText(failed[i].field)])
                  \o Template.NeedsPost
             ELSE Template.NoMatchPre \o model_number \o Template.NoMatchPost

\* A generate_explanation that writes the "more specific" sentence without
\* testing is_valid() and product_line
Needs_generate_explanation(st) ==
    LET failed == get_failed_validations(st)
    IN  insert_state(st, "explanation", "generated", RecordReason.Explanation,
                     Template.NeedsPre
                     \o join(Template.CommaSpace,
                             [i \in 1..Len(failed) |-> FieldText(failed[i].field)])
                     \o Template.NeedsPost)

\* generate_explanation stores the text under "explanation" with status "generated".
generate_explanation(st) ==
    insert_state(st, "explanation", "generated", RecordReason.Explanation, ExplanationText(st))

\* update_with_enriched_data: every enriched field the state tracks becomes ok.
RECURSIVE update_with_enriched_data(_, _)
update_with_enriched_data(st, enriched) ==
    IF Len(enriched) = 0 THEN st
    ELSE LET e == enriched[1]
             st1 == IF HasField(st, e.field)
                    THEN insert_state(st, e.field, "ok",
                                      RecordReason.EnrichedPre \o e.source, e.enhanced_value)
                    ELSE st
         IN  update_with_enriched_data(st1, Tail(enriched))

-----------------------------------------------------------------------------
(* Field validators *)

check_manufacturer(manufacturer, st) ==
    IF Len(manufacturer) = 0 \/ Len(strip(manufacturer)) = 0
    THEN insert_state(st, "manufacturer", "missing", ValidatorReason.ManufacturerMissing, <<>>)
    ELSE IF strip(lower(manufacturer)) \in {Placeholder.to_be_determined, Placeholder.unknown}
    THEN insert_state(st, "manufacturer", "generic", ValidatorReason.ManufacturerGeneric,
                      manufacturer)
    ELSE insert_state(st, "manufacturer", "ok", ValidatorReason.ManufacturerOk, manufacturer)

check_asset_classification(asset_classification, st) ==
    IF Len(asset_classification) = 0 \/ Len(strip(asset_classification)) = 0
    THEN insert_state(st, "asset_classification", "missing",
                      ValidatorReason.ClassificationMissing, <<>>)
    ELSE IF Len(strip(asset_classification)) < 3
    THEN insert_state(st, "asset_classification", "invalid", ValidatorReason.ClassificationShort,
                      asset_classification)
    ELSE insert_state(st, "asset_classification", "ok", ValidatorReason.ClassificationOk,
                      asset_classification)

generic_patterns ==
    {Placeholder.n450, Placeholder.n500, Placeholder.n600, Placeholder.n1000,
     Placeholder.n2000, Placeholder.generator}

\* A check_model_number that measures the raw text (len(model_number) < 3)
Unstripped_check_model_number(model_number, st) ==
    IF Len(model_number) = 0 \/ Len(strip(model_number)) = 0
    THEN insert_state(st, "model_number", "missing", ValidatorReason.ModelMissing, <<>>)
    ELSE IF Len(model_number) < 3
    THEN insert_state(st, "model_number", "invalid", ValidatorReason.ModelShort, model_number)
    ELSE IF strip(lower(model_number)) \in generic_patterns
    THEN insert_state(st, "model_number", "generic",
                      ValidatorReason.ModelGenericPre \o model_number
                      \o ValidatorReason.ModelGenericPost,
                      model_number)
    ELSE insert_state(st, "model_number", "ok", ValidatorReason.ModelOk, model_number)

check_model_number(model_number, st) ==
    IF Len(model_number) = 0 \/ Len(strip(model_number)) = 0
    THEN insert_state(st, "model_number", "missing", ValidatorReason.ModelMissing, <<>>)
    ELSE IF Len(strip(model_number)) < 3
    THEN insert_state(st, "model_number", "invalid", ValidatorReason.ModelShort, model_number)
    ELSE IF strip(lower(model_number)) \in generic_patterns
    THEN insert_state(st, "model_number", "generic",
                      ValidatorReason.ModelGenericPre \o model_number
                      \o ValidatorReason.ModelGenericPost,
                      model_number)
    ELSE insert_state(st, "model_number", "ok", ValidatorReason.ModelOk, model_number)

-----------------------------------------------------------------------------
(* Product-line matcher *)

\* MockService.known_patterns, each manufacturer's patterns in the dict's order
known_patterns ==
    <<[manufacturer |-> Maker.cummins,
       patterns |-> << <<"d","q","k","a","b">>, <<"q","s","k">>, <<"k","t","a">>,
                       <<"n","t">>, <<"l","1","0">> >>,
       lines    |-> << <<"D","Q","K","A","B">>, <<"Q","S","K">>, <<"K","T","A">>,
                       <<"N","T">>, <<"L","1","0">> >>],
      [manufacturer |-> Maker.caterpillar,
       patterns |-> << <<"3","5","1","6">>, <<"c","3","2">>, <<"c","1","5">>,
                       <<"3","4","1","2">> >>,
       lines    |-> << <<"3","5","1","6">>, <<"C","3","2">>, <<"C","1","5">>,
                       <<"3","4","1","2">> >>],
      [manufacturer |-> Maker.kohler,
       patterns |-> << <<"2","0","r","z">>, <<"3","0","r","z">>, <<"4","0","r","z">> >>,
       lines    |-> << <<"2","0","R","Z">>, <<"3","0","R","Z">>, <<"4","0","R","Z">> >>]>>

\* A fallback that records a missing product line as ok with an empty value
OkEmpty_PrefixLine(model_number, st) ==
    LET potential_line == upper(prefix(model_number, 4))
    IN  IF Len(model_number) > 3
           /\ \E i \in 1..Len(potential_line) : isalpha(potential_line[i])
        THEN insert_state(st, "product_line", "ok",
                          MatcherReason.ExtractedPre \o potential_line
                          \o MatcherReason.ExtractedPost,
                          potential_line)
        ELSE insert_state(st, "product_line", "ok", MatcherReason.NotFound, <<>>)

\* The matcher's fallback: the upper-cased four-character prefix when it holds a letter
PrefixLine(model_number, st) ==
    LET potential_line == upper(prefix(model_number, 4))
    IN  IF Len(model_number) > 3
           /\ \E i \in 1..Len(potential_line) : isalpha(potential_line[i])
        THEN insert_state(st, "product_line", "ok",
                          MatcherReason.ExtractedPre \o potential_line
                          \o MatcherReason.ExtractedPost,
                          potential_line)
        ELSE insert_state(st, "product_line", "not_found", MatcherReason.NotFound, <<>>)

\* A matcher that skips the pattern table (a plausible slip: the fallback alone)
PrefixOnly_get_product_line(manufacturer_name, model_number, st) ==
    PrefixLine(model_number, st)

\* A matcher that lets the last matching pattern of the table win
LastHit_get_product_line(manufacturer_name, model_number, st) ==
    LET manufacturer_lower == lower(manufacturer_name)
        model_lower == lower(model_number)
        known == {k \in 1..Len(known_patterns) :
                    known_patterns[k].manufacturer = manufacturer_lower}
        row == known_patterns[CHOOSE k \in known : TRUE]
        hits == {p \in 1..Len(row.patterns) : contains(row.patterns[p], model_lower)}
        final == CHOOSE p \in hits : \A q \in hits : p >= q
    IN  IF known # {} /\ hits # {}
        THEN insert_state(st, "product_line", "ok",
                          MatcherReason.FoundPre \o row.lines[final] \o MatcherReason.FoundMid
                          \o row.patterns[final] \o MatcherReason.FoundPost,
                          row.lines[final])
        ELSE PrefixLine(model_number, st)

\* MockService._get_product_line
MockService_get_product_line(manufacturer_name, model_number, st) ==
    LET manufacturer_lower == lower(manufacturer_name)
        model_lower == lower(model_number)
        known == {k \in 1..Len(known_patterns) :
                    known_patterns[k].manufacturer = manufacturer_lower}
        row == known_patterns[CHOOSE k \in known : TRUE]
        hits == {p \in 1..Len(row.patterns) : contains(row.patterns[p], model_lower)}
        first == CHOOSE p \in hits : \A q \in hits : p <= q
    IN  IF known # {} /\ hits # {}
        THEN insert_state(st, "product_line", "ok",
                          MatcherReason.FoundPre \o row.lines[first] \o MatcherReason.FoundMid
                          \o row.patterns[first] \o MatcherReason.FoundPost,
                          row.lines[first])
        ELSE PrefixLine(model_number, st)

-----------------------------------------------------------------------------
(* Mock enrichment source (SalesForceService).  Each lookup draws at random; *)
(* `pick` holds the draws of one enrich_failed_validations call.  Of an       *)
(* enrichment result the orchestrator reads enhanced_value and source only.   *)

\* manufacturer_db["generic"]
manufacturer_db ==
    {Enhanced.CumminsPower, Enhanced.CaterpillarInc, Enhanced.KohlerCo, Enhanced.Generac}

\* the keys of model_db["enhanced_models"]
generic_models ==
    {Placeholder.n450, Placeholder.n500, Placeholder.n600, Placeholder.n1000,
     Placeholder.n2000}

\* model_db["enhanced_models"][base_model]
enhanced_models(base_model) ==
    CASE base_model = Placeholder.n450 -> Enhanced.Model450
      [] base_model = Placeholder.n500 -> Enhanced.Model500
      [] base_model = Placeholder.n600 -> Enhanced.Model600
      [] base_model = Placeholder.n1000 -> Enhanced.Model1000
      [] OTHER -> Enhanced.Model2000

\* classification_db[classification_type]["specific"]
classification_db(classification_type) ==
    IF classification_type = "generator" THEN Enhanced.ClassGenerator ELSE Enhanced.ClassEmissions

\* product_lines of the module-level _get_product_line
product_lines == {Enhanced.QSKSeries, Enhanced.CSeries, Enhanced.DQKABSeries, Enhanced.PowerTech}

\* The draws random.choice can make in one enrich_failed_validations call: one
\* per failed field that has a lookup, and none (<<>>) for a field not looked up.
Draws(failed_validations) ==
    LET asked == {failed_validations[i].field : i \in 1..Len(failed_validations)}
    IN  [manufacturer : IF "manufacturer" \in asked THEN manufacturer_db ELSE {<<>>},
         classification_type :
            IF "asset_classification" \in asked THEN {"generator", "emissions"} ELSE {""},
         base_model : IF "model_number" \in asked THEN generic_models ELSE {<<>>},
         product_line : IF "product_line" \in asked THEN product_lines ELSE {<<>>}]

lookup_enrichment(field_name, pick) ==
    CASE field_name = "manufacturer" ->
            [field |-> field_name, enhanced_value |-> pick.manufacturer,
             source |-> Source.Vendor]
      [] field_name = "asset_classification" ->
            [field |-> field_name,
             enhanced_value |-> classification_db(pick.classification_type),
             source |-> Source.Hierarchy]
      [] field_name = "model_number" ->
            [field |-> field_name, enhanced_value |-> enhanced_models(pick.base_model),
             source |-> Source.TechSpecs]
      [] field_name = "product_line" ->
            [field |-> field_name, enhanced_value |-> pick.product_line,
             source |-> Source.Catalog]
      [] OTHER ->
            [field |-> field_name, enhanced_value |-> <<>>, source |-> Source.Unknown]

\* enrich_failed_validations()["enriched_data"], in the order of the failed fields
enrich_failed_validations(failed_validations, pick) ==
    [i \in 1..Len(failed_validations) |->
        lookup_enrichment(failed_validations[i].field, pick)]

-----------------------------------------------------------------------------
(* LRUCache *)

\* get's result for an absent key
None == 0

KeysOf(c) == {c[i].key : i \in 1..Len(c)}

\* A get that refreshes recency (move_to_end on a hit), as a textbook LRU does
Refreshing_get(c, key) ==
    [ret |-> IF key \in KeysOf(c)
             THEN c[CHOOSE i \in 1..Len(c) : c[i].key = key].value
             ELSE None,
     cache |-> IF key \in KeysOf(c)
               THEN Append(SelectSeq(c, LAMBDA x : x.key # key),
                           c[CHOOSE i \in 1..Len(c) : c[i].key = key])
               ELSE c]

\* A get that takes the entry out of the cache when it returns it (pop for [])
Popping_get(c, key) ==
    [ret |-> IF key \in KeysOf(c)
             THEN c[CHOOSE i \in 1..Len(c) : c[i].key = key].value
             ELSE None,
     cache |-> SelectSeq(c, LAMBDA x : x.key # key)]

\* get returns the stored value, or None, and leaves the OrderedDict as it is.
LRUCache_get(c, key) ==
    [ret |-> IF key \in KeysOf(c)
             THEN c[CHOOSE i \in 1..Len(c) : c[i].key = key].value
             ELSE None,
     cache |-> c]

\* A set that overwrites an existing key where it is (no move_to_end)
InPlace_set(c, cap, key, value) ==
    LET e == [key |-> key, value |-> value]
    IN  IF key \in KeysOf(c)
        THEN [i \in 1..Len(c) |-> IF c[i].key = key THEN e ELSE c[i]]
        ELSE IF Len(c) >= cap
             THEN Append(Tail(c), e)
             ELSE Append(c, e)

\* A set that pops the newest entry of a full cache (popitem(last=True))
PopNewest_set(c, cap, key, value) ==
    LET e == [key |-> key, value |-> value]
        others == SelectSeq(c, LAMBDA x : x.key # key)
    IN  IF key \in KeysOf(c)
        THEN Append(others, e)
        ELSE IF Len(c) >= cap
             THEN Append(SubSeq(c, 1, Len(c) - 1), e)
             ELSE Append(c, e)

\* A set that pops only when the cache is over its capacity (> for >=)
LateEvicting_set(c, cap, key, value) ==
    LET e == [key |-> key, value |-> value]
        others == SelectSeq(c, LAMBDA x : x.key # key)
    IN  IF key \in KeysOf(c)
        THEN Append(others, e)
        ELSE IF Len(c) > cap
             THEN Append(Tail(c), e)
             ELSE Append(c, e)

\* set raises KeyError when popitem(last=False) finds the OrderedDict empty: a new
\* key on a cache constructed with a capacity below 1.
LRUCache_set_raises(c, cap, key) ==
    /\ key \notin KeysOf(c)
    /\ Len(c) >= cap
    /\ Len(c) = 0

\* set: an existing key is overwritten and moved to the end; a new key is
\* appended after the oldest entry is popped when the cache is full.
LRUCache_set(c, cap, key, value) ==
    LET e == [key |-> key, value |-> value]
        others == SelectSeq(c, LAMBDA x : x.key # key)
    IN  IF key \in KeysOf(c)
        THEN Append(others, e)
        ELSE IF Len(c) >= cap
             THEN Append(Tail(c), e)
             ELSE Append(c, e)

-----------------------------------------------------------------------------
(* Orchestrator *)

\* The separator of the three parts of a cache key
Bar == <<"|">>

_create_cache_key(asset_data) ==
    LET asset_classification == lower(strip(asset_data.asset_classification_name))
        manufacturer == lower(strip(asset_data.manufacturer_name))
        model_number == lower(strip(asset_data.model_number))
    IN  asset_classification \o Bar \o manufacturer \o Bar \o model_number

\* process_asset_data, the validators and the matcher on a fresh state
ValidationPass(asset_data) ==
    LET s1 == check_manufacturer(asset_data.manufacturer_name, EmptyState)
        s2 == check_model_number(asset_data.model_number, s1)
        s3 == check_asset_classification(asset_data.asset_classification_name, s2)
    IN  MockService_get_product_line(asset_data.manufacturer_name,
                                     asset_data.model_number, s3)

\* An enrichment branch that does not run the matcher again
Unmatched_EnrichmentPass(asset_data, st, pick) ==
    LET failed_validations == get_failed_validations(st)
        enriched_data == enrich_failed_validations(failed_validations, pick)
    IN  generate_explanation(update_with_enriched_data(st, enriched_data))

\* process_asset_data, the enrichment branch
EnrichmentPass(asset_data, st, pick) ==
    LET failed_validations == get_failed_validations(st)
        enriched_data == enrich_failed_validations(failed_validations, pick)
        s1 == update_with_enriched_data(st, enriched_data)
        enriched_manufacturer == ValueOf(s1, "manufacturer", asset_data.manufacturer_name)
        enriched_model_number == ValueOf(s1, "model_number", asset_data.model_number)
        s2 == MockService_get_product_line(enriched_manufacturer, enriched_model_number, s1)
    IN  generate_explanation(s2)

\* The state process_asset_data builds when the cache has no entry for the input
ProcessMiss(asset_data, pick) ==
    LET st == ValidationPass(asset_data)
    IN  IF is_valid(st)
        THEN generate_explanation(st)
        ELSE EnrichmentPass(asset_data, st, pick)

-----------------------------------------------------------------------------
(* Requests *)

\* Text of the requests the service is driven with
InputText ==
    [AC0583 |->
        <<"A","C","0","5","8","3">>,
     AC0584 |->
        <<"A","C","0","5","8","4">>,
     GeneratorDiesel |->
        <<"G","e","n","e","r","a","t","o","r"," ","(","D","i","e","s","e","l",")">>,
     Cummins |->
        <<"C","u","m","m","i","n","s">>,
     DQKAB |->
        <<"D","Q","K","A","B","-","1","0","6","7","9","8","3","3">>,
     ToBeDetermined |->
        <<"T","o"," ","B","e"," ","D","e","t","e","r","m","i","n","e","d">>,
     generator_diesel |->
        <<" ","g","e","n","e","r","a","t","o","r"," ","(","d","i","e","s","e","l",")">>,
     CUMMINS |->
        <<"C","U","M","M","I","N","S"," ">>,
     dqkab |->
        <<"d","q","k","a","b","-","1","0","6","7","9","8","3","3">>,
     Pump |->
        <<"P","u","m","p">>,
     Acme |->
        <<"A","c","m","e">>,
     Digits |->
        <<"1","2","3","4","5">>,
     Blank |->
        <<" "," "," ">>,
     C32X |->
        <<"C","3","2","-","X">>,
     ab |->
        <<"a","b">>,
     Kohler |->
        <<"K","o","h","l","e","r">>,
     Seven |->
        <<"7">>,
     Generator |->
        <<"G","e","n","e","r","a","t","o","r">>,
     kohler |->
        <<"k","o","h","l","e","r">>,
     X20RZ |->
        <<"X","2","0","R","Z">>]

AssetData(guid2, classification, manufacturer, model) ==
    [asset_classification_guid2 |-> guid2,
     asset_classification_name |-> classification,
     manufacturer_name |-> manufacturer,
     model_number |-> model]

\* The valid request of the integration test and of the schema's example
ValidInput ==
    AssetData(InputText.AC0583, InputText.GeneratorDiesel,
              InputText.Cummins, InputText.DQKAB)

\* The invalid request of the integration test
InvalidInput ==
    AssetData(InputText.AC0584, <<>>,
              InputText.ToBeDetermined, Placeholder.n450)

\* ValidInput in another letter case and with surrounding whitespace
ShoutedInput ==
    AssetData(InputText.AC0584, InputText.generator_diesel,
              InputText.CUMMINS, InputText.dqkab)

\* A request the validators accept and the matcher finds no product line for
UnmatchedInput ==
    AssetData(InputText.AC0583, InputText.Pump,
              InputText.Acme, InputText.Digits)

\* A request whose model number alone is a generic placeholder
GenericModelInput ==
    AssetData(InputText.AC0583, InputText.GeneratorDiesel,
              InputText.Cummins, Placeholder.n450)

\* A request whose manufacturer is whitespace only
BlankManufacturerInput ==
    AssetData(InputText.AC0583, InputText.GeneratorDiesel,
              InputText.Blank, InputText.C32X)

\* A request whose classification and model number are too short
ShortInput ==
    AssetData(InputText.AC0584, InputText.ab,
              InputText.Kohler, InputText.Seven)

\* A request matched by a pattern inside the model number
KohlerInput ==
    AssetData(InputText.AC0583, InputText.Generator,
              InputText.kohler, InputText.X20RZ)

\* A request whose classification alone is too short
ShortClassificationInput ==
    AssetData(InputText.AC0583, InputText.ab,
              InputText.Cummins, InputText.DQKAB)

Inputs ==
    {ValidInput, InvalidInput, ShoutedInput, UnmatchedInput, GenericModelInput,
     BlankManufacturerInput, ShortInput, KohlerInput}

\* The requests of the long-running service
ServiceInputs == {ValidInput, ShoutedInput, GenericModelInput}

NoInput ==
    AssetData(<<>>, <<>>,
              <<>>, <<>>)

-----------------------------------------------------------------------------
(* The service: one MockService, its cache, and the caller's returned objects *)

\* Objects no cache entry and no caller variable refers to are dropped.
Collect(h, c, r) ==
    LET live == {c[i].value : i \in 1..Len(c)} \cup {r}
    IN  [o \in (DOMAIN h) \cap live |-> h[o]]

\* The history kept per cache key follows the cache's keys.
Snapshots(s, c) == [k \in (DOMAIN s) \cap KeysOf(c) |-> s[k]]

Extend(f, k, v) == [x \in (DOMAIN f) \cup {k} |-> IF x = k THEN v ELSE f[x]]

\* id() of a newly constructed object
NewObject(h) == CHOOSE o \in 1..(Cardinality(DOMAIN h) + 1) : o \notin DOMAIN h

\* What one process_asset_data call called: the number of validator, matcher and
\* generate_explanation runs, the failed field names each call of the enrichment
\* collaborator was constructed with, and the number of response_cache.set calls.
NoCalls == [validators |-> 0, matcher |-> 0, enrich |-> <<>>, explain |-> 0, set |-> 0]

\* Nothing has been called on the service yet.
Idle ==
    [op |-> "none", input |-> NoInput, hit |-> FALSE, emptyBefore |-> TRUE,
     calls |-> NoCalls, fault |-> "none"]

\* The calls of lines 201-234 on `asset_data`: three validators and the matcher,
\* then generate_explanation; or one SalesForceService with the failed
\* validations, the matcher again, then generate_explanation.
MissCalls(asset_data, keyed) ==
    LET st == ValidationPass(asset_data)
    IN  IF is_valid(st)
        THEN [validators |-> 3, matcher |-> 1, enrich |-> <<>>, explain |-> 1,
              set |-> IF keyed THEN 1 ELSE 0]
        ELSE [validators |-> 3, matcher |-> 2,
              enrich |-> <<FieldNames(get_failed_validations(st))>>, explain |-> 1,
              set |-> IF keyed THEN 1 ELSE 0]

\* The cache operations of one call that raise: none, the key building or the
\* read (the try of lines 187-195), or the write (the try of lines 238-240).
Faults == {"none", "read", "write"}

ServiceInit ==
    /\ cache = <<>>
    /\ capacity \in 1..MaxCapacity
    /\ heap = <<>>
    /\ ret = 0
    /\ last = Idle
    /\ requests = <<>>
    /\ running = 0
    /\ snap = <<>>
    /\ nmut = 0
    /\ ops = <<>>
    /\ keyIn = <<>>
    /\ keyOut = <<>>

\* A cache write that is not guarded by `if cache_key:`
WrittenUnguarded(keyed, raised) == ~raised

\* Lines 237-242: set is called when cache_key is not None, and the entry is
\* stored when set does not raise.
Written(keyed, raised) == keyed /\ ~raised

\* process_asset_data when no cached object is returned: the new state is built,
\* stored under the key when there is one (`keyed`: cache_key is not None) and
\* set does not raise, and returned in either case.
Miss(asset_data, cache_key, c, final, keyed, fault) ==
    LET state == NewObject(heap)
        raised == fault = "write" \/ LRUCache_set_raises(c, capacity, cache_key)
        written == Written(keyed, raised)
        stored == IF written THEN LRUCache_set(c, capacity, cache_key, state) ELSE c
    IN  /\ ret' = state
        /\ cache' = stored
        /\ heap' = Collect(Extend(heap, state, final), stored, state)
        /\ snap' = IF written THEN Snapshots(Extend(snap, cache_key, final), stored) ELSE snap
        /\ last' = [op |-> "process", input |-> asset_data, hit |-> FALSE,
                    emptyBefore |-> (Len(cache) = 0),
                    calls |-> MissCalls(asset_data, keyed), fault |-> fault]

\* MockService.process_asset_data, with the cache operations of `fault` raising
Process(asset_data, fault) ==
    LET cache_key == _create_cache_key(asset_data)
        got == LRUCache_get(cache, cache_key)
        keyed == fault # "read"
        cached_response == IF keyed THEN got.ret ELSE None
        c == IF keyed THEN got.cache ELSE cache
    IN  /\ IF cached_response # None
           THEN /\ ret' = cached_response
                /\ cache' = c
                /\ heap' = Collect(heap, c, cached_response)
                /\ snap' = snap
                /\ last' = [op |-> "process", input |-> asset_data, hit |-> TRUE,
                            emptyBefore |-> (Len(cache) = 0),
                            calls |-> NoCalls, fault |-> fault]
           ELSE \E pick \in Draws(get_failed_validations(ValidationPass(asset_data))) :
                    Miss(asset_data, cache_key, c, ProcessMiss(asset_data, pick),
                         keyed, fault)
        /\ UNCHANGED <<capacity, nmut, ops, keyIn, keyOut, requests, running>>

\* MockService.process_asset_data on a cache whose operations do not raise
ProcessAssetData(asset_data) == Process(asset_data, "none")

\* What every mutation of the returned object by the caller does besides
Mutated ==
    /\ ret # 0
    /\ nmut < MaxMutations
    /\ nmut' = nmut + 1
    /\ last' = [op |-> "mutate", input |-> NoInput, hit |-> FALSE, emptyBefore |-> FALSE,
                calls |-> NoCalls, fault |-> "none"]
    /\ UNCHANGED <<cache, capacity, ret, snap, ops, keyIn, keyOut, requests, running>>

\* The caller calls clear_ai_state on the returned object.
CallerClearAiState ==
    /\ Mutated
    /\ heap' = [heap EXCEPT ![ret] = EmptyState]

\* The caller calls insert_state on the returned object (reason and value defaulted).
CallerInsertState(field_name, status) ==
    /\ Mutated
    /\ heap' = [heap EXCEPT ![ret] = insert_state(heap[ret], field_name, status, <<>>, <<>>)]

\* The caller calls update_ai_state with a dict of its own.
CallerUpdateAiState ==
    /\ Mutated
    /\ heap' = [heap EXCEPT ![ret] =
                    insert_state(EmptyState, "manufacturer", "ok", <<>>, InputText.Acme)]

\* The caller calls generate_explanation on the returned object.
CallerGenerateExplanation ==
    /\ Mutated
    /\ heap' = [heap EXCEPT ![ret] = generate_explanation(heap[ret])]

ServiceNext ==
    \/ \E asset_data \in ServiceInputs : ProcessAssetData(asset_data)
    \/ CallerClearAiState
    \/ CallerInsertState("manufacturer", "invalid")
    \/ CallerUpdateAiState
    \/ CallerGenerateExplanation

Spec == ServiceInit /\ [][ServiceNext]_vars

\* A newly constructed service handles its first request.
FirstRequest(asset_data) ==
    /\ last.op = "none"
    /\ ProcessAssetData(asset_data)

FreshNext == \E asset_data \in Inputs : FirstRequest(asset_data)

SpecFresh == ServiceInit /\ [][FreshNext]_vars

\* A service constructed with any cache_size from 0 (MockService(cache_size)),
\* whose cache operations may raise
FaultyInit ==
    /\ cache = <<>>
    /\ capacity \in 0..MaxCapacity
    /\ heap = <<>>
    /\ ret = 0
    /\ last = Idle
    /\ requests = <<>>
    /\ running = 0
    /\ snap = <<>>
    /\ nmut = 0
    /\ ops = <<>>
    /\ keyIn = <<>>
    /\ keyOut = <<>>

FaultyInputs == {ValidInput, ShortClassificationInput}

FaultyNext == \E asset_data \in FaultyInputs, fault \in Faults : Process(asset_data, fault)

SpecFaulty == FaultyInit /\ [][FaultyNext]_vars

-----------------------------------------------------------------------------
(* A bare LRUCache driven by get and set calls *)

Keys == 1..(MaxCapacity + 1)

Values == {1, 2}

\* Enough calls to fill a cache, read it and insert once more
MaxOps == MaxCapacity + 2

LRUInit ==
    /\ cache = <<>>
    /\ capacity \in 1..MaxCapacity
    /\ ops = <<>>
    /\ heap = <<>>
    /\ ret = 0
    /\ last = Idle
    /\ requests = <<>>
    /\ running = 0
    /\ snap = <<>>
    /\ nmut = 0
    /\ keyIn = <<>>
    /\ keyOut = <<>>

Get(key) ==
    /\ Len(ops) < MaxOps
    /\ cache' = LRUCache_get(cache, key).cache
    /\ ops' = Append(ops, [op |-> "get", key |-> key,
                           value |-> LRUCache_get(cache, key).ret, pre |-> cache])
    /\ UNCHANGED <<capacity, heap, ret, last, snap, nmut, keyIn, keyOut, requests, running>>

Set(key, value) ==
    /\ Len(ops) < MaxOps
    /\ cache' = LRUCache_set(cache, capacity, key, value)
    /\ ops' = Append(ops, [op |-> "set", key |-> key, value |-> value, pre |-> cache])
    /\ UNCHANGED <<capacity, heap, ret, last, snap, nmut, keyIn, keyOut, requests, running>>

LRUNext ==
    \/ \E key \in Keys : Get(key)
    \/ \E key \in Keys, value \in Values : Set(key, value)

SpecLRU == LRUInit /\ [][LRUNext]_vars

-----------------------------------------------------------------------------
(* _create_cache_key applied to two requests *)

KeyClassifications == {<<"a">>, <<"a","|","b">>, <<" ","A"," ">>}

KeyManufacturers == {<<"c">>, <<"b","|","c">>, <<"C","\t">>}

KeyModels == {<<"d">>, <<"D">>, <<>>}

KeyGuids == {<<"1">>, <<"2">>}

KeyInputs ==
    [asset_classification_guid2 : KeyGuids,
     asset_classification_name : KeyClassifications,
     manufacturer_name : KeyManufacturers,
     model_number : KeyModels]

KeyInit ==
    /\ keyIn \in KeyInputs \X KeyInputs
    /\ keyOut = <<>>
    /\ cache = <<>>
    /\ capacity \in {1}
    /\ ops = <<>>
    /\ heap = <<>>
    /\ ret = 0
    /\ last = Idle
    /\ requests = <<>>
    /\ running = 0
    /\ snap = <<>>
    /\ nmut = 0

CreateCacheKeys ==
    /\ keyOut = <<>>
    /\ keyOut' = <<_create_cache_key(keyIn[1]), _create_cache_key(keyIn[2])>>
    /\ UNCHANGED <<keyIn, cache, capacity, ops, heap, ret, last, snap, nmut, requests, running>>

KeyNext == CreateCacheKeys

SpecKey == KeyInit /\ [][KeyNext]_vars

-----------------------------------------------------------------------------
(* One AssetProcessingResult driven by its caller *)

\* The states of the object the caller starts from: a new one, and one the
\* validators and the matcher have filled for a request
ResultStates == {EmptyState} \cup {ValidationPass(asset_data) : asset_data \in Inputs}

\* enriched_data dicts as enrich_failed_validations returns them: for a blank
\* manufacturer, and for a short classification and model number
EnrichedDicts ==
    LET failed(asset_data) == get_failed_validations(ValidationPass(asset_data))
        results(asset_data) ==
            {enrich_failed_validations(failed(asset_data), pick) :
                pick \in Draws(failed(asset_data))}
    IN  results(BlankManufacturerInput) \cup results(ShortInput)

ResultInit ==
    /\ heap \in {<<st>> : st \in ResultStates}
    /\ ret = 1
    /\ ops = <<>>
    /\ nmut = 0
    /\ last = Idle
    /\ cache = <<>>
    /\ capacity \in {1}
    /\ snap = <<>>
    /\ keyIn = <<>>
    /\ keyOut = <<>>
    /\ requests = <<>>
    /\ running = 0

\* The caller calls update_with_enriched_data on the object.
CallerUpdateWithEnrichedData(enriched_data) ==
    /\ ret # 0
    /\ nmut < MaxMutations
    /\ nmut' = nmut + 1
    /\ heap' = [heap EXCEPT ![ret] = update_with_enriched_data(heap[ret], enriched_data)]
    /\ ops' = Append(ops, [op |-> "update_with_enriched_data", key |-> ret,
                           value |-> enriched_data, pre |-> heap[ret]])
    /\ last' = [op |-> "mutate", input |-> NoInput, hit |-> FALSE, emptyBefore |-> FALSE,
                calls |-> NoCalls, fault |-> "none"]
    /\ UNCHANGED <<cache, capacity, ret, snap, keyIn, keyOut, requests, running>>

ResultNext ==
    \/ CallerClearAiState
    \/ \E field_name \in {"manufacturer", "product_line"}, status \in {"ok", "missing"} :
          CallerInsertState(field_name, status)
    \/ CallerUpdateAiState
    \/ CallerGenerateExplanation
    \/ \E enriched_data \in EnrichedDicts : CallerUpdateWithEnrichedData(enriched_data)

SpecResult == ResultInit /\ [][ResultNext]_vars

-----------------------------------------------------------------------------
(* The validators, each applied to a new AssetProcessingResult *)

\* Whitespace around a value
Pads == {<<>>, <<" ">>}

\* Values without surrounding whitespace: empty, too short, placeholders, names
Cores ==
    {<<>>, InputText.Seven, InputText.ab, InputText.Cummins, InputText.X20RZ,
     Placeholder.to_be_determined, Placeholder.unknown, Placeholder.generator,
     Placeholder.n450, Placeholder.n500, Placeholder.n600, Placeholder.n1000,
     Placeholder.n2000}

\* The raw values the validators are given: the cores, in lower and upper case,
\* with and without surrounding whitespace
ValidatorTexts ==
    {l \o c \o r : l \in Pads, r \in Pads, c \in Cores \cup {upper(c) : c \in Cores}}

ValidatorInit ==
    /\ heap = <<>>
    /\ ret = 0
    /\ ops = <<>>
    /\ nmut = 0
    /\ last = Idle
    /\ cache = <<>>
    /\ capacity \in {1}
    /\ snap = <<>>
    /\ keyIn = <<>>
    /\ keyOut = <<>>
    /\ requests = <<>>
    /\ running = 0

\* state = AssetProcessingResult(); check(text, state)
Checked(op, text, st) ==
    /\ heap' = <<st>>
    /\ ret' = 1
    /\ ops' = <<[op |-> op, key |-> text, value |-> None, pre |-> EmptyState]>>
    /\ UNCHANGED <<cache, capacity, last, snap, nmut, keyIn, keyOut, requests, running>>

CheckManufacturer(text) ==
    Checked("check_manufacturer", text, check_manufacturer(text, EmptyState))

CheckAssetClassification(text) ==
    Checked("check_asset_classification", text, check_asset_classification(text, EmptyState))

CheckModelNumber(text) ==
    Checked("check_model_number", text, check_model_number(text, EmptyState))

ValidatorNext ==
    \/ \E text \in ValidatorTexts : CheckManufacturer(text)
    \/ \E text \in ValidatorTexts : CheckAssetClassification(text)
    \/ \E text \in ValidatorTexts : CheckModelNumber(text)

SpecValidators == ValidatorInit /\ [][ValidatorNext]_vars

-----------------------------------------------------------------------------
(* _get_product_line applied to one state *)

\* Model numbers for the matcher's branches: two patterns of one manufacturer, a
\* letter inside and outside the four-character prefix, three characters
MatcherText ==
    [NtDqkab |-> <<"N","T","-","D","Q","K","A","B">>,
     n123a5  |-> <<"1","2","3","a","5">>,
     n1234a  |-> <<"1","2","3","4","a">>,
     abc     |-> <<"a","b","c">>]

MatcherManufacturers ==
    {InputText.Cummins, InputText.CUMMINS, upper(InputText.Cummins), InputText.Kohler,
     InputText.kohler, Maker.caterpillar, InputText.Acme, <<>>}

MatcherModels ==
    {InputText.DQKAB, InputText.dqkab, InputText.C32X, InputText.X20RZ, InputText.Digits,
     InputText.Pump, InputText.ab, InputText.Seven, <<>>,
     MatcherText.NtDqkab, MatcherText.n123a5, MatcherText.n1234a, MatcherText.abc}

\* The states the matcher is given: new, validated, and already matched
MatcherStates ==
    {EmptyState,
     check_manufacturer(InputText.Acme, EmptyState),
     ValidationPass([asset_classification_guid2 |-> InputText.AC0583,
                     asset_classification_name |-> InputText.GeneratorDiesel,
                     manufacturer_name |-> InputText.Cummins,
                     model_number |-> InputText.DQKAB])}

\* self._get_product_line(manufacturer_name, model_number, state)
GetProductLine(manufacturer_name, model_number, st) ==
    /\ ops = <<>>
    /\ heap' = <<MockService_get_product_line(manufacturer_name, model_number, st)>>
    /\ ret' = 1
    /\ ops' = <<[op |-> "_get_product_line", key |-> <<manufacturer_name, model_number>>,
                 value |-> None, pre |-> st]>>
    /\ UNCHANGED <<cache, capacity, last, snap, nmut, keyIn, keyOut, requests, running>>

MatcherNext ==
    \E manufacturer_name \in MatcherManufacturers, model_number \in MatcherModels,
       st \in MatcherStates :
        GetProductLine(manufacturer_name, model_number, st)

SpecMatcher == ValidatorInit /\ [][MatcherNext]_vars

-----------------------------------------------------------------------------
(* generate_explanation called repeatedly on one state *)

\* generate_explanation calls in a row on one state
MaxExplanations == 2

\* The states explained: a new one, and those the validators and the matcher
\* leave for known, unknown, placeholder and blank manufacturers, matched,
\* unmatched, numeric and short model numbers, good and short classifications
ExplainStates ==
    {EmptyState} \cup
    {ValidationPass([asset_classification_guid2 |-> InputText.AC0583,
                     asset_classification_name |-> c,
                     manufacturer_name |-> m,
                     model_number |-> n]) :
        c \in {InputText.GeneratorDiesel, InputText.ab},
        m \in {InputText.Cummins, InputText.Kohler, InputText.Acme,
               InputText.ToBeDetermined, InputText.Blank},
        n \in {InputText.DQKAB, InputText.C32X, InputText.X20RZ, InputText.Digits,
               InputText.ab}}

ExplainInit ==
    /\ heap \in {<<st>> : st \in ExplainStates}
    /\ ret = 1
    /\ ops = <<>>
    /\ nmut = 0
    /\ last = Idle
    /\ cache = <<>>
    /\ capacity \in {1}
    /\ snap = <<>>
    /\ keyIn = <<>>
    /\ keyOut = <<>>
    /\ requests = <<>>
    /\ running = 0

\* explanation = state.generate_explanation(); `value` is the text returned
GenerateExplanation ==
    /\ Len(ops) < MaxExplanations
    /\ heap' = [heap EXCEPT ![ret] = generate_explanation(heap[ret])]
    /\ ops' = Append(ops, [op |-> "generate_explanation", key |-> ret,
                           value |-> ExplanationText(heap[ret]), pre |-> heap[ret]])
    /\ UNCHANGED <<cache, capacity, ret, last, snap, nmut, keyIn, keyOut, requests, running>>

ExplainNext == GenerateExplanation

SpecExplain == ExplainInit /\ [][ExplainNext]_vars

-----------------------------------------------------------------------------
(* The first validation pass of process_asset_data on two requests, each on    *)
(* a service of its own with an empty cache                                   *)

PairInputs == Inputs \cup {ShortClassificationInput}

PairInit ==
    /\ keyIn \in PairInputs \X PairInputs
    /\ keyOut = <<>>
    /\ heap = <<>>
    /\ ret = 0
    /\ ops = <<>>
    /\ nmut = 0
    /\ last = Idle
    /\ cache = <<>>
    /\ capacity \in {1}
    /\ snap = <<>>
    /\ requests = <<>>
    /\ running = 0

\* process_asset_data up to the matcher's first run, for both requests
FirstPasses ==
    /\ keyOut = <<>>
    /\ keyOut' = <<_create_cache_key(keyIn[1]), _create_cache_key(keyIn[2])>>
    /\ heap' = <<ValidationPass(keyIn[1]), ValidationPass(keyIn[2])>>
    /\ UNCHANGED <<keyIn, cache, capacity, ops, ret, last, snap, nmut, requests, running>>

PairNext == FirstPasses

SpecPair == PairInit /\ [][PairNext]_vars

-----------------------------------------------------------------------------
(* The /match handler: match_asset, the exception classes and the exception   *)
(* handlers of the application                                                *)

\* Text of the handler's messages
HandlerText ==
    [FailedPre |->
        <<"F","a","i","l","e","d"," ","t","o"," ","p","r","o","c","e","s","s"," ","a","s","s",
          "e","t"," ","d","a","t","a",":"," ">>,
     Unexpected |->
        <<"A","n"," ","u","n","e","x","p","e","c","t","e","d"," ","e","r","r","o","r"," ","o",
          "c","c","u","r","r","e","d">>,
     Boom |->
        <<"c","o","n","n","e","c","t","i","o","n"," ","r","e","s","e","t">>]

\* The classes of exceptions.py
DomainClasses ==
    {"SalesforceAIBridgeException", "ValidationError", "ProcessingError",
     "SalesforceConnectionError", "AIServiceError", "CacheError", "RateLimitError"}

\* Classes of exceptions that are not of exceptions.py
OtherClasses == {"KeyError", "RuntimeError"}

\* The base class
BaseOf(cls) ==
    IF cls \in DomainClasses \ {"SalesforceAIBridgeException"}
    THEN "SalesforceAIBridgeException"
    ELSE "Exception"

RECURSIVE isinstance(_, _)
isinstance(cls, base) ==
    IF cls = base THEN TRUE
    ELSE IF cls = "Exception" THEN FALSE
    ELSE isinstance(BaseOf(cls), base)

\* The status_code each __init__ of exceptions.py sets
status_code(cls) ==
    CASE cls = "ValidationError" -> 400
      [] cls = "ProcessingError" -> 422
      [] cls = "SalesforceConnectionError" -> 503
      [] cls = "AIServiceError" -> 502
      [] cls = "CacheError" -> 500
      [] cls = "RateLimitError" -> 429
      [] cls = "SalesforceAIBridgeException" -> 500
      [] OTHER -> None

\* cls(message); str() of the exception is its message
NewException(cls, message) ==
    [class |-> cls, message |-> message, status_code |-> status_code(cls)]

NoException == [class |-> "none", message |-> <<>>, status_code |-> None]

\* The exceptions the pipeline of a request may raise
Raisable == {NewException(cls, HandlerText.Boom) : cls \in DomainClasses \cup OtherClasses}

NoBody ==
    [asset_classification |-> <<>>, manufacturer |-> <<>>, model_number |-> <<>>,
     product_line |-> <<>>, explanation |-> <<>>]

NoResponse ==
    [status_code |-> None, error |-> "", message |-> <<>>, details |-> <<>>, body |-> NoBody]

\* create_match_response: the state's values, the request's where the state has none
create_match_response(st, original_input) ==
    [asset_classification |->
        ValueOf(st, "asset_classification", original_input.asset_classification_name),
     manufacturer |-> ValueOf(st, "manufacturer", original_input.manufacturer_name),
     model_number |-> ValueOf(st, "model_number", original_input.model_number),
     product_line |-> ValueOf(st, "product_line", <<>>),
     explanation |-> ValueOf(st, "explanation", <<>>)]

\* A match_asset that raises every exception as it is
Reraising_match_asset(original_input, st, raised) ==
    IF raised = NoException
    THEN [raised |-> NoException, body |-> create_match_response(st, original_input)]
    ELSE [raised |-> raised, body |-> NoBody]

\* match_asset, lines 98-116: the response it returns for the state
\* process_asset_data returned, or the exception it raises for the one raised
match_asset(original_input, st, raised) ==
    IF raised = NoException
    THEN [raised |-> NoException, body |-> create_match_response(st, original_input)]
    ELSE IF isinstance(raised.class, "SalesforceAIBridgeException")
    THEN [raised |-> raised, body |-> NoBody]
    ELSE [raised |-> NewException("ProcessingError",
                                  HandlerText.FailedPre \o raised.message),
          body |-> NoBody]

custom_exception_handler(exc) ==
    [status_code |-> exc.status_code, error |-> exc.class, message |-> exc.message,
     details |-> exc.message, body |-> NoBody]

general_exception_handler(exc) ==
    [status_code |-> 500, error |-> "InternalServerError",
     message |-> HandlerText.Unexpected, details |-> exc.message, body |-> NoBody]

\* What the caller of /match receives: the returned response, or the response of
\* the handler registered for the class of the raised exception
Respond(result) ==
    IF result.raised = NoException
    THEN [status_code |-> 200, error |-> "", message |-> <<>>, details |-> <<>>,
          body |-> result.body]
    ELSE IF isinstance(result.raised.class, "SalesforceAIBridgeException")
    THEN custom_exception_handler(result.raised)
    ELSE general_exception_handler(result.raised)

\* The record of a request that has been answered
Answered(asset_data, raises, hit, st) ==
    [input |-> asset_data, raises |-> raises, pc |-> "answered", hit |-> hit,
     state |-> st,
     response |-> Respond(match_asset(asset_data, st,
                                      IF hit THEN NoException ELSE raises))]

MatchInputs == {ValidInput, ShortClassificationInput}

\* One /match request at a time on the module's ai_service; the exception, when
\* there is one, is raised by the pipeline of lines 201-234.
Match(asset_data, raises) ==
    LET cache_key == _create_cache_key(asset_data)
        got == LRUCache_get(cache, cache_key)
    IN  /\ IF got.ret # None
           THEN /\ requests' = <<Answered(asset_data, raises, TRUE, heap[got.ret])>>
                /\ cache' = got.cache
                /\ heap' = heap
           ELSE IF raises # NoException
           THEN /\ requests' = <<Answered(asset_data, raises, FALSE, EmptyState)>>
                /\ cache' = got.cache
                /\ heap' = heap
           ELSE \E pick \in Draws(get_failed_validations(ValidationPass(asset_data))) :
                    LET final == ProcessMiss(asset_data, pick)
                        state == NewObject(heap)
                        raised == LRUCache_set_raises(got.cache, capacity, cache_key)
                        stored == IF Written(TRUE, raised)
                                  THEN LRUCache_set(got.cache, capacity, cache_key, state)
                                  ELSE got.cache
                    IN  /\ requests' = <<Answered(asset_data, raises, FALSE, final)>>
                        /\ cache' = stored
                        /\ heap' = Collect(Extend(heap, state, final), stored, 0)
        /\ UNCHANGED <<capacity, ret, last, snap, nmut, ops, keyIn, keyOut, running>>

ErrorsNext == \E asset_data \in MatchInputs, raises \in Raisable \cup {NoException} :
                  Match(asset_data, raises)

SpecErrors == ServiceInit /\ [][ErrorsNext]_vars

-----------------------------------------------------------------------------
(* Concurrent /match requests: each is a task of the one event loop; the loop *)
(* runs a task until it awaits or ends, and match_asset is an async function   *)
(* whose body calls process_asset_data without an await.                      *)

\* A match_asset that awaits between the cache read and the pipeline
AwaitsAfterRead(pc) == pc = "missed"

\* Whether the task yields to the event loop at a position of lines 98-108: the
\* body holds no await.
Awaits(pc) == FALSE

\* The server accepts a request and creates its task; `raises` is the exception
\* the pipeline raises for it, if any.
Arrive(asset_data, raises) ==
    /\ Len(requests) < MaxRequests
    /\ requests' = Append(requests,
                          [input |-> asset_data, raises |-> raises, pc |-> "accepted",
                           hit |-> FALSE, state |-> EmptyState, response |-> NoResponse])
    /\ UNCHANGED <<cache, capacity, heap, ret, last, snap, nmut, ops, keyIn, keyOut, running>>

\* The event loop starts the task of request i: lines 98-199, the cache key and
\* the cache read; a hit is answered at once.
Read(i) ==
    /\ running = 0
    /\ requests[i].pc = "accepted"
    /\ LET asset_data == requests[i].input
           cache_key == _create_cache_key(asset_data)
           got == LRUCache_get(cache, cache_key)
       IN  IF got.ret # None
           THEN /\ requests' = [requests EXCEPT ![i] =
                                   Answered(asset_data, requests[i].raises, TRUE,
                                            heap[got.ret])]
                /\ cache' = got.cache
                /\ running' = 0
           ELSE /\ requests' = [requests EXCEPT ![i].pc = "missed"]
                /\ cache' = got.cache
                /\ running' = IF Awaits("missed") THEN 0 ELSE i
    /\ UNCHANGED <<capacity, heap, ret, last, snap, nmut, ops, keyIn, keyOut>>

\* The task of request i goes on after a miss: lines 201-244 and 105-108, the
\* pipeline, the cache write and the response.
Finish(i) ==
    /\ running \in {0, i}
    /\ requests[i].pc = "missed"
    /\ LET asset_data == requests[i].input
           cache_key == _create_cache_key(asset_data)
       IN  IF requests[i].raises # NoException
           THEN /\ requests' = [requests EXCEPT ![i] =
                                   Answered(asset_data, requests[i].raises, FALSE,
                                            EmptyState)]
                /\ UNCHANGED <<cache, heap>>
           ELSE \E pick \in Draws(get_failed_validations(ValidationPass(asset_data))) :
                    LET final == ProcessMiss(asset_data, pick)
                        state == NewObject(heap)
                        raised == LRUCache_set_raises(cache, capacity, cache_key)
                        stored == IF Written(TRUE, raised)
                                  THEN LRUCache_set(cache, capacity, cache_key, state)
                                  ELSE cache
                    IN  /\ requests' = [requests EXCEPT ![i] =
                                           Answered(asset_data, NoException, FALSE, final)]
                        /\ cache' = stored
                        /\ heap' = Collect(Extend(heap, state, final), stored, 0)
    /\ running' = 0
    /\ UNCHANGED <<capacity, ret, last, snap, nmut, ops, keyIn, keyOut>>

MatchNext ==
    \/ \E asset_data \in MatchInputs,
          raises \in {NoException, NewException("RuntimeError", HandlerText.Boom)} :
              Arrive(asset_data, raises)
    \/ \E i \in 1..Len(requests) : Read(i)
    \/ \E i \in 1..Len(requests) : Finish(i)

SpecMatch == ServiceInit /\ [][MatchNext]_vars

-----------------------------------------------------------------------------
(* Properties *)

\* The state the last process_asset_data call returned
Returned == heap[ret]

\* The last step was the first request of a new service, and it was `asset_data`.
FirstRequestWas(asset_data) ==
    /\ last.op = "process"
    /\ last.emptyBefore
    /\ last.input = asset_data

\* The three validators all yield ok on `asset_data`.
ValidatorsOk(asset_data) ==
    /\ StatusOf(check_manufacturer(asset_data.manufacturer_name, EmptyState),
                "manufacturer") = "ok"
    /\ StatusOf(check_model_number(asset_data.model_number, EmptyState),
                "model_number") = "ok"
    /\ StatusOf(check_asset_classification(asset_data.asset_classification_name,
                                           EmptyState),
                "asset_classification") = "ok"

\* The three input fields are ok in `st`, with values the enrichment source holds.
EnrichedOk(st) ==
    /\ StatusOf(st, "manufacturer") = "ok"
    /\ ValueOf(st, "manufacturer", <<>>) \in manufacturer_db
    /\ StatusOf(st, "model_number") = "ok"
    /\ ValueOf(st, "model_number", <<>>) \in {enhanced_models(b) : b \in generic_models}
    /\ StatusOf(st, "asset_classification") = "ok"
    /\ ValueOf(st, "asset_classification", <<>>)
           \in {Enhanced.ClassGenerator, Enhanced.ClassEmissions}

\* C1: the invalid request (empty classification, "To Be Determined", "450") on an
\* empty cache returns, whatever the enrichment source draws, a state whose
\* manufacturer, model_number and asset_classification are ok with non-empty values
\* of the source, and on which is_valid() is true.
C1_EnrichedStateIsValid ==
    FirstRequestWas(InvalidInput) =>
        /\ EnrichedOk(Returned)
        /\ Len(ValueOf(Returned, "manufacturer", <<>>)) > 0
        /\ Len(ValueOf(Returned, "model_number", <<>>)) > 0
        /\ Len(ValueOf(Returned, "asset_classification", <<>>)) > 0
        /\ is_valid(Returned)

\* C2: for every request the three validators accept, the returned state has
\* manufacturer, asset_classification and model_number ok and is_valid() is true.
C2_AcceptedRequestIsValid ==
    (last.op = "process" /\ ValidatorsOk(last.input)) =>
        /\ StatusOf(Returned, "manufacturer") = "ok"
        /\ StatusOf(Returned, "asset_classification") = "ok"
        /\ StatusOf(Returned, "model_number") = "ok"
        /\ is_valid(Returned)

\* C3: for the invalid request the returned state is not valid and its failed
\* validations are exactly manufacturer (generic), asset_classification (missing)
\* and model_number (generic).
C3_InvalidRequestKeepsFailures ==
    (last.op = "process" /\ last.input = InvalidInput) =>
        LET failed == get_failed_validations(Returned)
        IN  /\ ~is_valid(Returned)
            /\ Len(failed) = 3
            /\ {failed[i].field : i \in 1..Len(failed)}
                   = {"manufacturer", "asset_classification", "model_number"}
            /\ StatusOf(Returned, "manufacturer") = "generic"
            /\ StatusOf(Returned, "asset_classification") = "missing"
            /\ StatusOf(Returned, "model_number") = "generic"

\* C4: the valid request (Generator (Diesel) / Cummins / DQKAB-10679833) on an
\* empty cache returns a state whose manufacturer, model_number,
\* asset_classification and product_line are ok, whose product line is "DQKAB",
\* found by the pattern dqkab, and whose explanation contains "DQKAB" and "Cummins".
C4_ValidRequestMatched ==
    FirstRequestWas(ValidInput) =>
        /\ StatusOf(Returned, "manufacturer") = "ok"
        /\ StatusOf(Returned, "model_number") = "ok"
        /\ StatusOf(Returned, "asset_classification") = "ok"
        /\ StatusOf(Returned, "product_line") = "ok"
        /\ ValueOf(Returned, "product_line", <<>>) = <<"D","Q","K","A","B">>
        /\ ReasonOf(Returned, "product_line")
               = MatcherReason.FoundPre \o <<"D","Q","K","A","B">> \o MatcherReason.FoundMid
                 \o <<"d","q","k","a","b">> \o MatcherReason.FoundPost
        /\ contains(<<"D","Q","K","A","B">>, ValueOf(Returned, "explanation", <<>>))
        /\ contains(InputText.Cummins, ValueOf(Returned, "explanation", <<>>))

\* The valid request was the first request and its state was returned.
C4_Witness ==
    /\ FirstRequestWas(ValidInput)
    /\ ~last.hit
    /\ HasField(Returned, "explanation")

\* C5: a cache hit returns the state as it was when it was cached, whatever the
\* caller did since to the object it was handed.
C5_HitReturnsCachedSnapshot ==
    (last.op = "process" /\ last.hit) =>
        Returned = snap[_create_cache_key(last.input)]

\* The calls made so far are capacity + 1 sets with pairwise distinct keys.
DistinctInserts ==
    /\ Len(ops) = capacity + 1
    /\ \A i \in 1..Len(ops) : ops[i].op = "set"
    /\ \A i, j \in 1..Len(ops) : i # j => ops[i].key # ops[j].key

\* C6: after capacity + 1 sets with pairwise distinct keys and no get, get on the
\* first key returns None and get on every other key returns the value set for it.
C6_FirstInsertedEvicted ==
    DistinctInserts =>
        /\ LRUCache_get(cache, ops[1].key).ret = None
        /\ \A i \in 2..Len(ops) : LRUCache_get(cache, ops[i].key).ret = ops[i].value

\* capacity + 1 distinct keys were inserted into a cache of the largest capacity.
C6_Witness ==
    /\ DistinctInserts
    /\ capacity = MaxCapacity

\* C7: in every step of a cache the number of entries stays at most the capacity
\* and the capacity stays what it was constructed with.
C7_SizeWithinCapacity ==
    [][Len(cache') <= capacity' /\ capacity' = capacity]_vars

\* A set of a new key met a full cache, and the cache is still full.
C7_Witness ==
    /\ Len(ops) > 0
    /\ ops[Len(ops)].op = "set"
    /\ Len(ops[Len(ops)].pre) = capacity
    /\ ops[Len(ops)].key \notin KeysOf(ops[Len(ops)].pre)
    /\ Len(cache) = capacity

\* C8: get changes neither the entries, their values nor their order, so a set
\* of a new key after it evicts what it would have evicted before it.
C8_GetIsReadOnly ==
    [][(Len(ops') = Len(ops) + 1 /\ ops'[Len(ops')].op = "get") =>
            /\ cache' = cache
            /\ capacity' = capacity
            /\ \A k \in Keys \ KeysOf(cache), v \in Values :
                   LRUCache_set(cache', capacity', k, v)
                       = LRUCache_set(cache, capacity, k, v)]_vars

\* The oldest entry of a full cache of two or more was read, and the next set of a
\* new key evicted it.
C8_Witness ==
    /\ Len(ops) >= 2
    /\ capacity >= 2
    /\ LET g == ops[Len(ops) - 1]
           s == ops[Len(ops)]
       IN  /\ g.op = "get"
           /\ Len(g.pre) = capacity
           /\ g.pre[1].key = g.key
           /\ s.op = "set"
           /\ s.key \notin KeysOf(s.pre)
           /\ g.key \notin KeysOf(cache)

\* C9: after get(k) on the oldest entry k of a full cache, the next set of a new
\* key evicts some other entry and k is still present.
C9_ReadRefreshesRecency ==
    (Len(ops) >= 2 /\ capacity >= 2) =>
        LET g == ops[Len(ops) - 1]
            s == ops[Len(ops)]
        IN  (/\ g.op = "get"
             /\ Len(g.pre) = capacity
             /\ g.pre[1].key = g.key
             /\ s.op = "set"
             /\ s.key \notin KeysOf(s.pre))
            => g.key \in KeysOf(cache)

\* The three fields a cache key is built from, trimmed and lower-cased
Normalized(asset_data) ==
    <<lower(strip(asset_data.asset_classification_name)),
      lower(strip(asset_data.manufacturer_name)),
      lower(strip(asset_data.model_number))>>

\* C10: two requests get the same cache key exactly when their classification,
\* manufacturer and model number are equal after trimming and lower-casing.
C10_KeyIffNormalizedEqual ==
    keyOut # <<>> =>
        ((keyOut[1] = keyOut[2]) <=> (Normalized(keyIn[1]) = Normalized(keyIn[2])))

\* The states lines 201-234 can build for `asset_data`, over the enrichment's draws
Outcomes(asset_data) ==
    {ProcessMiss(asset_data, pick) :
        pick \in Draws(get_failed_validations(ValidationPass(asset_data)))}

\* C11: a process_asset_data call whose cache key is in the cache returns the
\* stored object with its state as it is, runs no validator, no matcher, no
\* enrichment and no explanation generation, and leaves the cache's contents and
\* order unchanged; so repeated requests with one key get one state although the
\* enrichment is randomized.
C11_HitReturnsStoredState ==
    [][(last'.op = "process" /\ _create_cache_key(last'.input) \in KeysOf(cache)) =>
          LET cache_key == _create_cache_key(last'.input)
              stored == cache[CHOOSE i \in 1..Len(cache) : cache[i].key = cache_key].value
          IN  /\ ret' = stored
              /\ heap'[ret'] = heap[stored]
              /\ cache' = cache
              /\ last'.hit
              /\ last'.calls = NoCalls]_vars

\* A request whose enrichment is randomized was answered from the cache.
C11_Witness ==
    /\ last.op = "process"
    /\ last.hit
    /\ last.input = GenericModelInput

\* C12: a cache failure never aborts a request.  When the key building or the
\* read raises, the call still runs the validators, the matcher and the
\* explanation generation, returns a state the pipeline builds for the input and
\* calls no cache write; when the write raises, the built state is still returned.
\* In both cases the cache is left as it was.
C12_CacheFailureAbsorbed ==
    [][(last'.op = "process") =>
          /\ (last'.fault = "read") =>
                /\ ~last'.hit
                /\ last'.calls.validators = 3
                /\ last'.calls.matcher >= 1
                /\ last'.calls.explain = 1
                /\ last'.calls.set = 0
                /\ ret' # 0
                /\ heap'[ret'] \in Outcomes(last'.input)
                /\ cache' = cache
          /\ (~last'.hit /\ (last'.fault = "write" \/ capacity = 0)) =>
                /\ ret' # 0
                /\ heap'[ret'] \in Outcomes(last'.input)
                /\ cache' = cache]_vars

\* A call on a filled cache whose read raised returned a state that was not cached.
C12_Witness ==
    /\ last.op = "process"
    /\ last.fault = "read"
    /\ Len(cache) > 0
    /\ ret # 0
    /\ \A i \in 1..Len(cache) : cache[i].value # ret

\* C13: a call that misses the cache constructs the enrichment collaborator
\* exactly once, with exactly the fields among manufacturer, model_number,
\* asset_classification and product_line that are not ok after the first
\* validation pass, when there is such a field; and never otherwise, and never twice.
C13_EnrichmentCalledOnce ==
    (last.op = "process" /\ ~last.hit) =>
        LET st == ValidationPass(last.input)
            four == {"manufacturer", "model_number", "asset_classification", "product_line"}
            notOk == {f \in four : StatusOf(st, f) # "ok"}
            calls == last.calls.enrich
        IN  /\ Len(calls) = IF notOk = {} THEN 0 ELSE 1
            /\ \A i \in 1..Len(calls) :
                  /\ {calls[i][j] : j \in 1..Len(calls[i])} = notOk
                  /\ Len(calls[i]) = Cardinality(notOk)

\* The enrichment was asked for the three input fields of the invalid request.
C13_Witness ==
    /\ last.op = "process"
    /\ ~last.hit
    /\ Len(last.calls.enrich) = 1
    /\ Len(last.calls.enrich[1]) = 3

\* The last call logged on the object under test
LastCall == ops[Len(ops)]

\* C14: update_with_enriched_data leaves the record of a field that is already ok
\* unchanged (status, reason and value) when the enrichment data holds that field.
C14_UpdateKeepsOkFields ==
    (Len(ops) > 0 /\ LastCall.op = "update_with_enriched_data") =>
        LET pre == LastCall.pre
            enriched_data == LastCall.value
        IN  \A k \in 1..Len(enriched_data) :
                LET field_name == enriched_data[k].field
                IN  StatusOf(pre, field_name) = "ok" =>
                        /\ StatusOf(heap[ret], field_name) = "ok"
                        /\ ReasonOf(heap[ret], field_name) = ReasonOf(pre, field_name)
                        /\ ValueOf(heap[ret], field_name, <<>>) = ValueOf(pre, field_name, <<>>)

\* C15: get_failed_validations returns exactly the records whose status is not
\* ok, and is_valid() is true exactly when the state has no such record (so an
\* empty or cleared state is valid).
C15_FailedAreTheNonOk ==
    (ret # 0) =>
        LET st == heap[ret]
            failed == get_failed_validations(st)
            nonOk == {i \in 1..Len(st) : st[i].status # "ok"}
        IN  /\ Len(failed) = Cardinality(nonOk)
            /\ \A i \in nonOk : \E j \in 1..Len(failed) : failed[j] = st[i]
            /\ \A j \in 1..Len(failed) : \E i \in nonOk : failed[j] = st[i]
            /\ is_valid(st) <=> (nonOk = {})

\* The caller's call left a state with an ok record and a record that is not ok.
C15_Witness ==
    /\ ret # 0
    /\ nmut > 0
    /\ \E i, j \in 1..Len(heap[ret]) : heap[ret][i].status = "ok" /\ heap[ret][j].status # "ok"
    /\ ~is_valid(heap[ret])

\* The field a validator records
CheckedField(op) ==
    CASE op = "check_manufacturer" -> "manufacturer"
      [] op = "check_asset_classification" -> "asset_classification"
      [] op = "check_model_number" -> "model_number"

\* The status of `text` for `field_name` by the first matching rule of missing,
\* invalid, generic, ok
RuleStatus(field_name, text) ==
    LET trimmed == strip(text)
        normalized == lower(trimmed)
    IN  IF Len(trimmed) = 0 THEN "missing"
        ELSE IF field_name # "manufacturer" /\ Len(trimmed) < 3 THEN "invalid"
        ELSE IF field_name = "manufacturer"
                /\ normalized \in {Placeholder.to_be_determined, Placeholder.unknown}
             THEN "generic"
        ELSE IF field_name = "model_number"
                /\ normalized \in {Placeholder.n450, Placeholder.n500, Placeholder.n600,
                                   Placeholder.n1000, Placeholder.n2000,
                                   Placeholder.generator}
             THEN "generic"
        ELSE "ok"

\* C16: each validator records for its field the status of the first matching
\* rule in the order missing (empty or whitespace only), invalid (trimmed length
\* below 3; model_number and asset_classification only), generic (trimmed
\* lower-cased value a placeholder of the field; manufacturer and model_number
\* only), ok; and it records that one field only.
C16_ValidatorsFollowRules ==
    (Len(ops) > 0 /\ LastCall.op \in {"check_manufacturer", "check_asset_classification",
                                      "check_model_number"}) =>
        /\ Len(heap[ret]) = 1
        /\ StatusOf(heap[ret], CheckedField(LastCall.op))
              = RuleStatus(CheckedField(LastCall.op), LastCall.key)

\* check_model_number met a short value with whitespace around it.
C16_Witness ==
    /\ Len(ops) > 0
    /\ LastCall.op = "check_model_number"
    /\ LastCall.key = <<" ">> \o InputText.ab \o <<" ">>
    /\ StatusOf(heap[ret], "model_number") = "invalid"

\* The statuses of a Field Validation Record
StatusEnum == {"ok", "missing", "invalid", "generic", "not_found"}

\* C17: every record of the state process_asset_data returns, the records under
\* product_line and explanation included, has a status in {ok, missing, invalid,
\* generic, not_found}.
C17_StatusInEnum ==
    (last.op = "process") =>
        \A i \in 1..Len(Returned) : Returned[i].status \in StatusEnum

\* The four fields the pipeline validates and matches
PipelineFields == {"manufacturer", "model_number", "asset_classification", "product_line"}

\* The match sentence for a lower-cased manufacturer, a model number and a product line
MatchSentence(manufacturer_lower, model_number, product_line) ==
    IF manufacturer_lower = Maker.cummins
    THEN Template.ModelPre \o model_number \o Template.CumminsA \o product_line
         \o Template.CumminsB \o product_line \o Template.CumminsC
    ELSE IF manufacturer_lower = Maker.caterpillar
    THEN Template.ModelPre \o model_number \o Template.CaterpillarA \o product_line
         \o Template.CaterpillarB
    ELSE IF manufacturer_lower = Maker.kohler
    THEN Template.ModelPre \o model_number \o Template.KohlerA \o product_line
         \o Template.KohlerB
    ELSE Template.ModelPre \o model_number \o Template.GenericA \o product_line
         \o Template.GenericB

\* The sentence that asks for more specific data and lists `names`
NeedsSentence(names) ==
    Template.NeedsPre
    \o join(Template.CommaSpace, [i \in 1..Len(names) |-> FieldText(names[i])])
    \o Template.NeedsPost

\* C18: in the state returned after a cache miss the explanation is the match
\* sentence (the template of cummins, caterpillar or kohler for that lower-cased
\* manufacturer, the generic template otherwise) exactly when manufacturer,
\* model_number, asset_classification and product_line are ok and the product
\* line is not empty; otherwise it is the "needs to be more specific" sentence
\* listing the fields among the four that are not ok, in insertion order.
C18_ExplanationFollowsState ==
    (last.op = "process" /\ ~last.hit) =>
        LET st == Returned
            allOk == \A f \in PipelineFields : StatusOf(st, f) = "ok"
            product_line == ValueOf(st, "product_line", <<>>)
            notOk == SelectSeq(st, LAMBDA e : e.field \in PipelineFields /\ e.status # "ok")
            matched == MatchSentence(lower(ValueOf(st, "manufacturer", <<>>)),
                                     ValueOf(st, "model_number", <<>>), product_line)
        IN  /\ HasField(st, "explanation")
            /\ (allOk /\ Len(product_line) > 0)
                  => ValueOf(st, "explanation", <<>>) = matched
            /\ ~(allOk /\ Len(product_line) > 0)
                  => /\ ValueOf(st, "explanation", <<>>) = NeedsSentence(FieldNames(notOk))
                     /\ ValueOf(st, "explanation", <<>>) # matched

\* A request was enriched and no product line was found for the enriched model.
C18_Witness ==
    /\ last.op = "process"
    /\ ~last.hit
    /\ Len(last.calls.enrich) = 1
    /\ StatusOf(Returned, "product_line") = "not_found"
    /\ ValueOf(Returned, "explanation", <<>>) = NeedsSentence(<<"product_line">>)

\* The request that was answered last
Answer == requests[Len(requests)]

\* C19: an exception raised while processing a /match request reaches the caller
\* with its own kind, message and status code when it is a
\* SalesforceAIBridgeException, and as a ProcessingError with status 422
\* otherwise; none reaches the caller as the unclassified InternalServerError.
C19_ExceptionsAreClassified ==
    (Len(requests) > 0 /\ ~Answer.hit /\ Answer.raises # NoException) =>
        LET exc == Answer.raises
            response == Answer.response
        IN  /\ exc.class \in DomainClasses =>
                  /\ response.error = exc.class
                  /\ response.message = exc.message
                  /\ response.status_code = exc.status_code
            /\ exc.class \notin DomainClasses =>
                  /\ response.error = "ProcessingError"
                  /\ response.status_code = 422
            /\ response.error # "InternalServerError"

\* A KeyError of the pipeline was answered with status 422.
C19_Witness ==
    /\ Len(requests) > 0
    /\ ~Answer.hit
    /\ Answer.raises.class = "KeyError"
    /\ Answer.response.status_code = 422

\* The cache key of request i
KeyOfRequest(i) == _create_cache_key(requests[i].input)

\* Request i ran the pipeline and was answered with the state it built.
RanPipeline(reqs, i) ==
    /\ reqs[i].pc = "answered"
    /\ ~reqs[i].hit
    /\ reqs[i].raises = NoException

\* C20: the cache accesses of concurrent /match requests are serialized.  While
\* one request is between its cache read and its cache write no other request
\* reads or writes the cache; so the cache never exceeds its capacity, the write
\* of a request overwrites no other request's entry and is in the cache when the
\* request is answered, and two requests with one key both run the pipeline only
\* when a request with another key ran it as well (whose write evicted the entry).
C20_CacheAccessIsSerialized ==
    [][/\ \A i \in 1..Len(requests) :
             requests[i].pc = "missed" =>
                 \A j \in (1..Len(requests)) \ {i} : requests'[j] = requests[j]
       /\ Len(cache') <= capacity'
       /\ \A i \in 1..Len(requests) :
             (requests[i].pc = "missed" /\ RanPipeline(requests', i)) =>
                 /\ KeyOfRequest(i) \notin KeysOf(cache)
                 /\ \E k \in 1..Len(cache') :
                       /\ cache'[k].key = KeyOfRequest(i)
                       /\ heap'[cache'[k].value] = requests'[i].state
       /\ \A i, j \in 1..Len(requests) :
             (i # j /\ KeyOfRequest(i) = KeyOfRequest(j)
                    /\ RanPipeline(requests', i) /\ RanPipeline(requests', j)) =>
                 \E k \in 1..Len(requests) :
                     /\ KeyOfRequest(k) # KeyOfRequest(i)
                     /\ RanPipeline(requests', k)]_vars

\* A request is between its cache read and its cache write while another request
\* with the same key, whose enrichment is randomized, waits for the event loop.
C20_Witness ==
    \E i, j \in 1..Len(requests) :
        /\ i # j
        /\ requests[i].pc = "missed"
        /\ requests[j].pc = "accepted"
        /\ requests[i].input = ShortClassificationInput
        /\ requests[j].input = ShortClassificationInput

\* The index of the last set of `key` among the first n logged calls
LastSet(key, n) ==
    CHOOSE i \in 1..n :
        /\ ops[i].op = "set" /\ ops[i].key = key
        /\ \A j \in (i + 1)..n : ~(ops[j].op = "set" /\ ops[j].key = key)

\* C21: set on a key that is present overwrites its value, makes it the most
\* recently used entry and evicts nothing, also when the cache is full; the next
\* set of a new key into the full cache evicts the entry set least recently, which
\* is one of the others when there are others.
C21_UpdateRefreshesAndKeepsAll ==
    /\ (Len(ops) >= 1 /\ ops[Len(ops)].op = "set"
            /\ ops[Len(ops)].key \in KeysOf(ops[Len(ops)].pre)) =>
          LET u == ops[Len(ops)]
          IN  /\ Len(cache) = Len(u.pre)
              /\ KeysOf(cache) = KeysOf(u.pre)
              /\ cache[Len(cache)] = [key |-> u.key, value |-> u.value]
              /\ SelectSeq(cache, LAMBDA x : x.key # u.key)
                    = SelectSeq(u.pre, LAMBDA x : x.key # u.key)
    /\ (Len(ops) >= 2 /\ ops[Len(ops) - 1].op = "set" /\ ops[Len(ops)].op = "set"
            /\ ops[Len(ops) - 1].key \in KeysOf(ops[Len(ops) - 1].pre)
            /\ Len(ops[Len(ops) - 1].pre) = capacity
            /\ ops[Len(ops)].key \notin KeysOf(ops[Len(ops)].pre)) =>
          LET u == ops[Len(ops) - 1]
              n == ops[Len(ops)]
              evicted == KeysOf(n.pre) \ KeysOf(cache)
          IN  /\ Cardinality(evicted) = 1
              /\ \A e \in evicted : \A k \in KeysOf(n.pre) :
                    LastSet(e, Len(ops) - 1) <= LastSet(k, Len(ops) - 1)
              /\ capacity >= 2 => (u.key \notin evicted /\ u.key \in KeysOf(cache))

\* The oldest entry of a full cache of two or more was set again, and the next
\* set of a new key evicted another entry.
C21_Witness ==
    /\ Len(ops) >= 2
    /\ capacity >= 2
    /\ LET u == ops[Len(ops) - 1]
           n == ops[Len(ops)]
       IN  /\ u.op = "set"
           /\ Len(u.pre) = capacity
           /\ u.pre[1].key = u.key
           /\ n.op = "set"
           /\ n.key \notin KeysOf(n.pre)
           /\ u.key \in KeysOf(cache)
           /\ Len(cache) = capacity

\* The product line the matching rules give: status and value
RuleLine(manufacturer_name, model_number) ==
    LET rows == {k \in 1..Len(known_patterns) :
                    known_patterns[k].manufacturer = lower(manufacturer_name)}
        row == known_patterns[CHOOSE k \in rows : TRUE]
        matching == {p \in 1..Len(row.patterns) :
                        contains(row.patterns[p], lower(model_number))}
    IN  IF rows # {} /\ matching # {}
        THEN [status |-> "ok",
              value |-> row.lines[CHOOSE p \in matching : \A q \in matching : p <= q]]
        ELSE IF Len(model_number) > 3 /\ \E i \in 1..4 : isalpha(model_number[i])
             THEN [status |-> "ok", value |-> upper(SubSeq(model_number, 1, 4))]
             ELSE [status |-> "not_found", value |-> <<>>]

\* C22: the matcher leaves exactly one product_line record and changes no other
\* record; for a manufacturer whose lower-cased name is in the pattern table the
\* first pattern, in table order, found in the lower-cased model number gives ok
\* with its label; otherwise a model number of more than 3 characters with a
\* letter among its first 4 gives ok with those 4 upper-cased; otherwise
\* not_found with an empty value.
C22_MatcherFollowsRules ==
    (Len(ops) = 1 /\ LastCall.op = "_get_product_line") =>
        LET pre == LastCall.pre
            post == heap[ret]
            rule == RuleLine(LastCall.key[1], LastCall.key[2])
        IN  /\ Cardinality({i \in 1..Len(post) : post[i].field = "product_line"}) = 1
            /\ SelectSeq(post, LAMBDA e : e.field # "product_line")
                  = SelectSeq(pre, LAMBDA e : e.field # "product_line")
            /\ StatusOf(post, "product_line") = rule.status
            /\ ValueOf(post, "product_line", None) = rule.value

\* The matcher ran on a validated state for a model number that holds two
\* patterns of its manufacturer, the later one of the table first.
C22_Witness ==
    /\ Len(ops) = 1
    /\ LastCall.op = "_get_product_line"
    /\ LastCall.key = <<InputText.Cummins, MatcherText.NtDqkab>>
    /\ Len(LastCall.pre) > 1
    /\ ValueOf(heap[ret], "product_line", None) = <<"D","Q","K","A","B">>

\* C23: generate_explanation called twice in a row on one state returns the same
\* text both times and leaves the explanation record, and the state, as the first
\* call left them.
C23_ExplanationIdempotent ==
    (Len(ops) >= 2 /\ ops[Len(ops) - 1].op = "generate_explanation"
                   /\ LastCall.op = "generate_explanation") =>
        /\ LastCall.value = ops[Len(ops) - 1].value
        /\ heap[ret] = LastCall.pre

\* C24: two requests with the same cache key get, from the first validation pass
\* on an empty cache, the same status for manufacturer, model_number,
\* asset_classification and product_line, and the same product_line value.
C24_SameKeySameOutcome ==
    (keyOut # <<>> /\ Len(heap) = 2 /\ keyOut[1] = keyOut[2]) =>
        /\ \A f \in PipelineFields : StatusOf(heap[1], f) = StatusOf(heap[2], f)
        /\ ValueOf(heap[1], "product_line", None) = ValueOf(heap[2], "product_line", None)

\* `text` begins with `start`
StartsWith(text, start) ==
    Len(text) >= Len(start) /\ SubSeq(text, 1, Len(start)) = start

\* C25: in the state returned after a cache miss the product_line record is the
\* one the matcher writes for the manufacturer and model number the state holds,
\* also when product_line was among the fields sent for enrichment: ok with a
\* non-empty value or not_found with an empty value, with a reason of the matcher
\* that names no enrichment source.
C25_ProductLineIsTheMatchers ==
    (last.op = "process" /\ ~last.hit) =>
        LET st == Returned
            rule == RuleLine(ValueOf(st, "manufacturer", last.input.manufacturer_name),
                             ValueOf(st, "model_number", last.input.model_number))
            status == StatusOf(st, "product_line")
            value == ValueOf(st, "product_line", None)
            reason == ReasonOf(st, "product_line")
        IN  /\ HasField(st, "product_line")
            /\ status = rule.status
            /\ value = rule.value
            /\ \/ status = "ok" /\ Len(value) > 0
               \/ status = "not_found" /\ value = <<>>
            /\ \/ StartsWith(reason, MatcherReason.FoundPre)
               \/ StartsWith(reason, MatcherReason.ExtractedPre)
               \/ reason = MatcherReason.NotFound
            /\ ~StartsWith(reason, RecordReason.EnrichedPre)
            /\ \A k \in DOMAIN Source : ~contains(Source[k], reason)

\* product_line was among the fields sent for enrichment, and the matcher found
\* a product line for the enriched values.
C25_Witness ==
    /\ last.op = "process"
    /\ ~last.hit
    /\ Len(last.calls.enrich) = 1
    /\ \E j \in 1..Len(last.calls.enrich[1]) : last.calls.enrich[1][j] = "product_line"
    /\ StatusOf(Returned, "product_line") = "ok"
    /\ StartsWith(ReasonOf(Returned, "manufacturer"), RecordReason.EnrichedPre)

\* C26: process_asset_data never produces the sentence "Valid data provided but
\* no specific product line match could be determined ..."; when the product
\* line is empty as the explanation is generated, product_line is not ok and the
\* explanation is the sentence listing the failed fields, product_line among them.
C26_NoMatchSentenceNeverProduced ==
    (last.op = "process" /\ ~last.hit) =>
        LET st == Returned
            explanation == ValueOf(st, "explanation", <<>>)
            failed == SelectSeq(st, LAMBDA e : e.field # "explanation" /\ e.status # "ok")
        IN  /\ HasField(st, "explanation")
            /\ ~StartsWith(explanation, Template.NoMatchPre)
            /\ ~contains(Template.NoMatchPre, explanation)
            /\ ValueOf(st, "product_line", <<>>) = <<>> =>
                  /\ StatusOf(st, "product_line") # "ok"
                  /\ \E i \in 1..Len(failed) : failed[i].field = "product_line"
                  /\ explanation = NeedsSentence(FieldNames(failed))

\* A request whose fields all pass but whose model number gives no product line
\* was explained.
C26_Witness ==
    /\ last.op = "process"
    /\ ~last.hit
    /\ ValueOf(Returned, "product_line", None) = <<>>
    /\ \A f \in {"manufacturer", "model_number", "asset_classification"} :
          StatusOf(Returned, f) = "ok"
    /\ contains(FieldText("product_line"), ValueOf(Returned, "explanation", <<>>))

=============================================================================
